---- MODULE Spec2Model ----
(***************************************************************************)
(* Model of the document-processing pipeline of raildock_RAG_LLM:          *)
(*   - app/utils/chunker.py            RegulationChunker                   *)
(*   - app/services/pdf_generator.py   PDFGenerator text repair / parsing  *)
(*   - app/services/zip_processor.py   ZipProcessor                        *)
(*   - app/routers/pipeline.py         process_vision_zip / _folder        *)
(*                                                                         *)
(* Texts are sequences of characters.  A character is a one-element string;*)
(* a Hangul syllable of the source is written as its romanised name        *)
(* ("gyu" for U+ADDC), since module text is ASCII.  Regular expressions of *)
(* the source are sequences of nodes, matched with Python's backtracking   *)
(* priority (leftmost match, greedy/lazy order of alternatives).           *)
(***************************************************************************)
EXTENDS Integers, Sequences, FiniteSets, TLC

VARIABLES
    \* RegulationChunker (chunker.py)
    text, overlap, chunks, cpc,
    \* PDFGenerator._fix_line_breaks (pdf_generator.py)
    ftext, fonce, ftwice, fpc,
    \* PDFGenerator._parse_document_content (pdf_generator.py)
    sections, content, parsed, ppc,
    \* parse_document_sections (pipeline.py)
    jsec,
    \* ZipProcessor / pipeline runs (zip_processor.py, pipeline.py)
    clock, dirs, zips, runs, owner,
    \* DocumentGenerator.generate (generator.py)
    gen,
    \* PDFGenerator._format_action_text (pdf_generator.py)
    atext, aout, apc,
    \* VectorService.add_regulation_document (vector_service.py)
    store, ingest,
    \* ZipProcessor.extract_zip, entry by entry (zip_processor.py)
    ext

chunkVars == <<text, overlap, chunks, cpc>>
fixVars   == <<ftext, fonce, ftwice, fpc>>
parseVars == <<sections, content, parsed, ppc, jsec>>
batchVars == <<clock, dirs, zips, runs, owner>>
genVars   == <<gen>>
fmtVars   == <<atext, aout, apc>>
ingVars   == <<store, ingest>>
extVars   == <<ext>>
vars      == <<chunkVars, fixVars, parseVars, batchVars, genVars, fmtVars, ingVars,
               extVars>>

(***************************************************************************)
(* Characters and Python's character classes (re module, str patterns).    *)
(***************************************************************************)
NL == "\n"
CR == "\r"
SP == " "

Digit  == {"0", "1", "2", "3", "4", "5", "6", "7", "8", "9"}
\* Hangul syllables [U+AC00-U+D7A3] that occur in the patterns and inputs.
Hangul == {"gyu", "jeong", "ga", "neun", "eun", "i", "eul", "reul", "ui", "e",
           "wa", "gwa", "on", "do", "seup", "sin", "roe",
           "no", "seon", "bo", "wi", "chi", "hwan", "gyeong", "ji", "yeok",
           "chwal", "yeong", "il", "si", "nal", "ssi", "gyeol", "ham", "yu",
           "hyeong", "sang", "tae", "heom", "pyeong", "deung", "geup", "pan",
           "geun", "geo", "cham", "jo", "go", "jak", "eop", "ryeok", "ja",
           "nae", "yong"}
Letter == {"a", "b", "c", "f", "o", "r", "x", "y", "z", "A", "B", "C", "D", "I"}
\* \s
Space  == {SP, NL, CR, "\t"}
\* \w
Word   == Digit \cup Letter \cup Hangul \cup {"_"}

(***************************************************************************)
(* Regular-expression nodes.                                               *)
(***************************************************************************)
\* a literal character sequence
Lit(q) == [t |-> "lit", q |-> q]
\* lo..hi characters of class S, longest first (greedy): S, S*, S+, S?
Rep(S, lo, hi) == [t |-> "cls", S |-> S, neg |-> FALSE, lo |-> lo, hi |-> hi, lazy |-> FALSE]
\* lo..hi characters outside S, longest first: [^...]*, [^...]+
NRep(S, lo, hi) == [t |-> "cls", S |-> S, neg |-> TRUE, lo |-> lo, hi |-> hi, lazy |-> FALSE]
\* lo..hi characters outside S, shortest first (lazy): .*? is LazyN({}, 0, Inf)
LazyN(S, lo, hi) == [t |-> "cls", S |-> S, neg |-> TRUE, lo |-> lo, hi |-> hi, lazy |-> TRUE]
\* alternation of literals, tried in order: (a|b|c)
Alt(qs) == [t |-> "alt", qs |-> qs]
\* (?=r1|r2|...) and (?!r1|r2|...): each ri a node sequence
LookAhead(rs) == [t |-> "la", rs |-> rs]
NotAhead(rs)  == [t |-> "nla", rs |-> rs]
\* ^ (no MULTILINE), $ (end, or before a final newline), \Z (end)
Bos == [t |-> "bos"]
Eos == [t |-> "eos"]
EoZ == [t |-> "eoz"]

\* "unbounded" repetition count: more than any text of the model
Inf == 1000

One(S)   == Rep(S, 1, 1)
Star(S)  == Rep(S, 0, Inf)
Plus(S)  == Rep(S, 1, Inf)
Opt(S)   == Rep(S, 0, 1)

\* the result of a failed match (positions of a successful match are >= 1)
FAIL == <<0>>

HasAt(s, i, q) ==
    /\ i + Len(q) - 1 <= Len(s)
    /\ \A j \in 1..Len(q) : s[i + j - 1] = q[j]

InCls(n, c) == IF n.neg THEN c \notin n.S ELSE c \in n.S

\* length of the longest run of class characters at position i, at most hi
RECURSIVE RunLen(_, _, _, _)
RunLen(n, s, i, acc) ==
    IF acc < n.hi /\ i + acc <= Len(s) /\ InCls(n, s[i + acc])
    THEN RunLen(n, s, i, acc + 1)
    ELSE acc

RECURSIVE MatchFrom(_, _, _, _)
RECURSIVE TryEnds(_, _, _, _, _)
RECURSIVE NodeEnds(_, _, _)
RECURSIVE AnyAlt(_, _, _, _)

\* some alternative rs[j..] of a lookahead matches at position i
AnyAlt(rs, j, s, i) ==
    IF j > Len(rs) THEN FALSE
    ELSE IF MatchFrom(rs[j], 1, s, i) # FAIL THEN TRUE
    ELSE AnyAlt(rs, j + 1, s, i)

\* the positions at which node n, started at position i, can end, in the
\* order in which the backtracking matcher tries them
NodeEnds(n, s, i) ==
    CASE n.t = "lit" -> IF HasAt(s, i, n.q) THEN <<i + Len(n.q)>> ELSE <<>>
      [] n.t = "cls" ->
            LET m == RunLen(n, s, i, 0)
            IN  IF m < n.lo THEN <<>>
                ELSE IF n.lazy THEN [j \in 1..(m - n.lo + 1) |-> i + n.lo + j - 1]
                ELSE [j \in 1..(m - n.lo + 1) |-> i + m - j + 1]
      [] n.t = "alt" ->
            LET hit == SelectSeq(n.qs, LAMBDA q : HasAt(s, i, q))
            IN  [j \in 1..Len(hit) |-> i + Len(hit[j])]
      [] n.t = "la"  -> IF AnyAlt(n.rs, 1, s, i) THEN <<i>> ELSE <<>>
      [] n.t = "nla" -> IF AnyAlt(n.rs, 1, s, i) THEN <<>> ELSE <<i>>
      [] n.t = "bos" -> IF i = 1 THEN <<i>> ELSE <<>>
      [] n.t = "eoz" -> IF i = Len(s) + 1 THEN <<i>> ELSE <<>>
      [] n.t = "eos" -> IF i = Len(s) + 1 \/ (i = Len(s) /\ s[i] = NL)
                        THEN <<i>> ELSE <<>>

TryEnds(re, k, s, c, j) ==
    IF j > Len(c) THEN FAIL
    ELSE LET r == MatchFrom(re, k + 1, s, c[j])
         IN  IF r # FAIL THEN <<c[j]>> \o r ELSE TryEnds(re, k, s, c, j + 1)

\* the first successful way (in backtracking order) to match nodes k.. of re
\* at position i: the end position of every node; FAIL when there is none
MatchFrom(re, k, s, i) ==
    IF k > Len(re) THEN <<>>
    ELSE TryEnds(re, k, s, NodeEnds(re[k], s, i), 1)

MEnd(m) == m.p[Len(m.p)]

\* re.finditer: the non-overlapping matches of re in s, left to right
RECURSIVE Scan(_, _, _)
Scan(re, s, pos) ==
    IF pos > Len(s) + 1 THEN <<>>
    ELSE LET r == MatchFrom(re, 1, s, pos)
         IN  IF r = FAIL THEN Scan(re, s, pos + 1)
             ELSE LET e == r[Len(r)]
                  IN  <<[b |-> pos, p |-> r]>>
                          \o Scan(re, s, IF e > pos THEN e ELSE pos + 1)

\* the text matched by nodes a..z of match m
Group(s, m, a, z) ==
    SubSeq(s, IF a = 1 THEN m.b ELSE m.p[a - 1], m.p[z] - 1)

\* replacement template items: a literal, or a copy of the nodes a..z
T(q)    == [a |-> 0, z |-> 0, q |-> q]
G(a, z) == [a |-> a, z |-> z, q |-> <<>>]

RECURSIVE Expand(_, _, _, _)
Expand(tmpl, j, s, m) ==
    IF j > Len(tmpl) THEN <<>>
    ELSE (IF tmpl[j].a = 0 THEN tmpl[j].q ELSE Group(s, m, tmpl[j].a, tmpl[j].z))
             \o Expand(tmpl, j + 1, s, m)

RECURSIVE SubBuild(_, _, _, _, _)
SubBuild(ms, j, s, cur, tmpl) ==
    IF j > Len(ms) THEN SubSeq(s, cur, Len(s))
    ELSE SubSeq(s, cur, ms[j].b - 1) \o Expand(tmpl, 1, s, ms[j])
             \o SubBuild(ms, j + 1, s, MEnd(ms[j]), tmpl)

\* re.sub(re, tmpl, s).  The argument text is bound to v as a value before
\* the scan starts, so that a chain of substitutions is evaluated step
\* after step, as the statements of the code are
Sub(re, tmpl, s) ==
    CHOOSE r \in {SubBuild(Scan(re, v, 1), 1, v, 1, tmpl) : v \in {s}} : TRUE

\* str.replace(old, new) for a non-empty old
Replace(s, old, new) == Sub(<<Lit(old)>>, <<T(new)>>, s)

\* str.strip(): leading and trailing whitespace removed
RECURSIVE LStrip(_)
LStrip(s) == IF s # <<>> /\ Head(s) \in Space THEN LStrip(Tail(s)) ELSE s
RECURSIVE RStrip(_)
RStrip(s) ==
    IF s # <<>> /\ s[Len(s)] \in Space THEN RStrip(SubSeq(s, 1, Len(s) - 1)) ELSE s
Strip(s) == RStrip(LStrip(s))

\* concatenation of a sequence of texts
RECURSIVE Concat(_)
Concat(ss) == IF ss = <<>> THEN <<>> ELSE Head(ss) \o Concat(Tail(ss))

(***************************************************************************)
(* RegulationChunker (app/utils/chunker.py)                                *)
(***************************************************************************)
\* the literal "[<gyu><jeong> ID]:" of the unit marker
MarkerLit == <<"[", "gyu", "jeong", SP, "I", "D", "]", ":">>

\* re.compile(r'(\[.. ID\]:\s*[\w-]+)')
regulation_pattern == <<Lit(MarkerLit), Star(Space), Plus(Word \cup {"-"})>>

\* settings.chunk_overlap, the overlap the service configures
chunk_overlap == 200

\* the loop of chunk(): one regulation per marker match; its content is the
\* stripped marker line, a newline and the text up to the next match, stripped
RegulationsDropLast(s) ==
    LET ms == Scan(regulation_pattern, s, 1)
    IN  [j \in 1..(IF Len(ms) = 0 THEN 0 ELSE Len(ms) - 1) |->
            LET reg_id_line == Strip(Group(s, ms[j], 1, 3))
                nxt == IF j < Len(ms) THEN ms[j + 1].b ELSE Len(s) + 1
                body == SubSeq(s, MEnd(ms[j]), nxt - 1)
            IN  [regulation_id |-> Strip(Replace(reg_id_line, MarkerLit, <<>>)),
                 content |-> Strip(reg_id_line \o <<NL>> \o body)]]

Regulations(s) ==
    LET ms == Scan(regulation_pattern, s, 1)
    IN  [j \in 1..Len(ms) |->
            LET reg_id_line == Strip(Group(s, ms[j], 1, 3))
                nxt == IF j < Len(ms) THEN ms[j + 1].b ELSE Len(s) + 1
                body == SubSeq(s, MEnd(ms[j]), nxt - 1)
            IN  [regulation_id |-> Strip(Replace(reg_id_line, MarkerLit, <<>>)),
                 content |-> Strip(reg_id_line \o <<NL>> \o body)]]

\* Python's s[-n:] for n >= 0: s[-0:] is s[0:], the whole of s
SliceLast(s, n) ==
    IF n = 0 \/ n >= Len(s) THEN s ELSE SubSeq(s, Len(s) - n + 1, Len(s))
\* Python's s[:n] for n >= 0
SliceFirst(s, n) == IF n >= Len(s) THEN s ELSE SubSeq(s, 1, n)

Ellipsis == <<".", ".", ".">>

\* the overlap of a unit ends with the next unit's first characters only
ApplyOverlapBackOnly(regulations, ov) ==
    [idx \in 1..Len(regulations) |->
        LET c0 == regulations[idx].content
            c1 == IF idx < Len(regulations)
                  THEN c0 \o <<NL, NL>>
                          \o SliceFirst(regulations[idx + 1].content, ov) \o Ellipsis
                  ELSE c0
        IN  [regulation_id |-> regulations[idx].regulation_id,
             content |-> c1,
             chunk_index |-> idx - 1,
             total_chunks |-> Len(regulations)]]

\* _apply_overlap(): idx of the source is idx - 1 here (sequences start at 1)
ApplyOverlap(regulations, ov) ==
    [idx \in 1..Len(regulations) |->
        LET c0 == regulations[idx].content
            c1 == IF idx > 1
                  THEN Ellipsis \o SliceLast(regulations[idx - 1].content, ov)
                          \o <<NL, NL>> \o c0
                  ELSE c0
            c2 == IF idx < Len(regulations)
                  THEN c1 \o <<NL, NL>>
                          \o SliceFirst(regulations[idx + 1].content, ov) \o Ellipsis
                  ELSE c1
        IN  [regulation_id |-> regulations[idx].regulation_id,
             content |-> c2,
             chunk_index |-> idx - 1,
             total_chunks |-> Len(regulations)]]

\* RegulationChunker.chunk()
Chunk(s, ov) == ApplyOverlap(Regulations(s), ov)

(* Input texts: concatenations of at most MaxPieces pieces. *)
MaxPieces == 4
MaxOverlap == 3

IdA1 == <<SP, "A", "-", "1">>
IdA2 == <<SP, "A", "-", "2">>
FooBar == <<NL, "f", "o", "o", SP, "b", "a", "r", NL>>
Baz == <<NL, "b", "a", "z">>
Pieces == {MarkerLit \o IdA1, MarkerLit \o IdA2, MarkerLit, FooBar, Baz, <<"x">>}

RECURSIVE PieceSeqs(_)
PieceSeqs(n) ==
    IF n = 0 THEN {<<>>}
    ELSE LET shorter == PieceSeqs(n - 1)
         IN  shorter \cup {Append(q, p) : q \in {r \in shorter : Len(r) = n - 1},
                                          p \in Pieces}

Texts == {Concat(q) : q \in PieceSeqs(MaxPieces)}
Overlaps == (0..MaxOverlap) \cup {chunk_overlap}

Idle == "idle"

ChunkIdle == text = <<>> /\ overlap = 0 /\ chunks = <<>> /\ cpc = Idle
FixIdle   == ftext = <<>> /\ fonce = <<>> /\ ftwice = <<>> /\ fpc = Idle
ParseIdle == sections = <<>> /\ content = <<>> /\ parsed = <<>> /\ ppc = Idle
                 /\ jsec = [pc |-> Idle]
BatchIdle == clock = 0 /\ dirs = <<>> /\ zips = {} /\ runs = <<>> /\ owner = 0
GenIdle   == gen = [pc |-> Idle]
FmtIdle   == atext = <<>> /\ aout = <<>> /\ apc = Idle
IngIdle   == store = <<>> /\ ingest = [pc |-> Idle]
ExtIdle   == ext = [pc |-> Idle]

ChunkInit ==
    /\ text \in Texts
    /\ overlap \in Overlaps
    /\ chunks = <<>>
    /\ cpc = "start"
    /\ FixIdle /\ ParseIdle /\ BatchIdle /\ GenIdle /\ FmtIdle /\ IngIdle /\ ExtIdle

\* vector_service.chunker.chunk(document_text)
DoChunk ==
    /\ cpc = "start"
    /\ chunks' = Chunk(text, overlap)
    /\ cpc' = "done"
    /\ UNCHANGED <<text, overlap, fixVars, parseVars, batchVars, genVars, fmtVars, ingVars, extVars>>

ChunkNext == DoChunk
SpecChunk == ChunkInit /\ [][ChunkNext]_vars

(***************************************************************************)
(* Claims about RegulationChunker, checked under SpecChunk.                *)
(***************************************************************************)
IdChars == Word \cup {"-"}

\* an occurrence of the unit marker starts at position p: the literal, then
\* optional whitespace, then at least one identifier character
IsMarkerAt(s, p) ==
    /\ HasAt(s, p, MarkerLit)
    /\ \E q \in (p + Len(MarkerLit))..Len(s) :
          /\ s[q] \in IdChars
          /\ \A r \in (p + Len(MarkerLit))..(q - 1) : s[r] \in Space

MarkerPositions(s) == {p \in 1..Len(s) : IsMarkerAt(s, p)}

\* the identifier written on the marker that starts at p
IdAt(s, p) ==
    LET q == CHOOSE q \in (p + Len(MarkerLit))..Len(s) :
                 /\ s[q] \in IdChars
                 /\ \A r \in (p + Len(MarkerLit))..(q - 1) : s[r] \in Space
        e == CHOOSE e \in q..Len(s) :
                 /\ \A r \in q..e : s[r] \in IdChars
                 /\ (e = Len(s) \/ s[e + 1] \notin IdChars)
    IN  SubSeq(s, q, e)

\* the n-th smallest element of a set of numbers
Nth(S, n) == CHOOSE x \in S : Cardinality({y \in S : y < x}) = n - 1

StartsWith(s, q) == HasAt(s, 1, q)
EndsWith(s, q) == Len(q) <= Len(s) /\ HasAt(s, Len(s) - Len(q) + 1, q)
Min(a, b) == IF a <= b THEN a ELSE b
Suffix(s, n) == SubSeq(s, Len(s) - n + 1, Len(s))
Prefix(s, n) == SubSeq(s, 1, n)

\* C5: a text with K marker occurrences yields exactly K units, in document
\* order, with chunk_index 0..K-1 and total_chunks K; the text before the
\* first marker reaches no unit (chunking the text without it gives the same
\* units); K = 0 yields the empty list.
C5_UnitsPerMarker ==
    cpc = "done" =>
        LET P == MarkerPositions(text)
            K == Cardinality(P)
        IN  /\ Len(chunks) = K
            /\ \A i \in 1..K :
                  /\ chunks[i].chunk_index = i - 1
                  /\ chunks[i].total_chunks = K
                  /\ chunks[i].regulation_id = IdAt(text, Nth(P, i))
                  /\ StartsWith(Regulations(text)[i].content, MarkerLit)
            /\ K > 0 => chunks = Chunk(SubSeq(text, Nth(P, 1), Len(text)), overlap)

C5_Witness ==
    /\ cpc = "done"
    /\ Cardinality(MarkerPositions(text)) = 2
    /\ ~IsMarkerAt(text, 1)
    /\ Len(chunks) = 2

\* C6 (as claimed): with overlap O, every unit is its own content with, in
\* front, an ellipsis and the last min(O, length) characters of the previous
\* unit and, behind, the first min(O, length) characters of the next unit and
\* an ellipsis -- for every O >= 0.
C6_PaddingAtMostOverlap ==
    cpc = "done" =>
        LET regs == Regulations(text)
        IN  \A i \in 1..Len(chunks) :
                chunks[i].content =
                    (IF i > 1
                     THEN Ellipsis
                            \o Suffix(regs[i - 1].content,
                                      Min(overlap, Len(regs[i - 1].content)))
                            \o <<NL, NL>>
                     ELSE <<>>)
                    \o regs[i].content
                    \o (IF i < Len(chunks)
                        THEN <<NL, NL>>
                               \o Prefix(regs[i + 1].content,
                                         Min(overlap, Len(regs[i + 1].content)))
                               \o Ellipsis
                        ELSE <<>>)

\* the scenario text: marker A-1, body "foo bar", marker A-2, body "baz"
Scenario == MarkerLit \o IdA1 \o FooBar \o MarkerLit \o IdA2 \o Baz

\* C7 (as claimed): in the scenario unit 0 ends with an ellipsis plus "baz"
\* and unit 1 begins with an ellipsis plus "bar".
C7_ScenarioAsClaimed ==
    (cpc = "done" /\ text = Scenario /\ overlap = 3) =>
        /\ Len(chunks) = 2
        /\ EndsWith(chunks[1].content, Ellipsis \o <<"b", "a", "z">>)
        /\ StartsWith(chunks[2].content, Ellipsis \o <<"b", "a", "r">>)

\* C7 (amended): in the scenario there are two units; unit 0 ends with a
\* blank line, the first 3 characters of unit 1's content (the start of its
\* marker line) and then an ellipsis; unit 1 begins with an ellipsis, the
\* last 3 characters of unit 0's content ("bar") and a blank line.
C7_ScenarioAmended ==
    (cpc = "done" /\ text = Scenario /\ overlap = 3) =>
        /\ Len(chunks) = 2
        /\ EndsWith(chunks[1].content,
                    <<"b", "a", "r", NL, NL>> \o Prefix(MarkerLit, 3) \o Ellipsis)
        /\ StartsWith(chunks[2].content,
                      Ellipsis \o <<"b", "a", "r", NL, NL>> \o MarkerLit)

C7_Witness ==
    /\ cpc = "done" /\ text = Scenario /\ overlap = 3
    /\ Len(chunks) = 2

\* C8 (as claimed): the regulation_id values of one chunking pass are
\* pairwise distinct.
C8_IdsDistinct ==
    cpc = "done" =>
        \A i, j \in 1..Len(chunks) :
            i # j => chunks[i].regulation_id # chunks[j].regulation_id

(***************************************************************************)
(* ZipProcessor (app/services/zip_processor.py) and the batch runs of      *)
(* app/routers/pipeline.py.                                                *)
(*                                                                         *)
(* clock   the wall clock in whole seconds (strftime("%Y%m%d_%H%M%S"))     *)
(* dirs    the directories result_<timestamp> under temp_base that exist,  *)
(*         each with its files; a file remembers the run that wrote it     *)
(* zips    the files temp_<timestamp>.zip under temp_base that exist       *)
(* runs    the requests; owner is the run whose handler holds the event    *)
(*         loop (handlers are coroutines of one uvicorn process: code      *)
(*         between two awaits runs without interleaving), 0 when free      *)
(***************************************************************************)
MaxItems == 2
MaxClock == 2

\* categories with an accumulator list, and a top-level folder without one
ReportFolders == {"rail", "insulator", "nest"}
Folders == {"rail", "nest", "other"}
Names == {1, 2}
\* what the language model does for an item when it is called
Outcomes == {"ok", "gen_fail", "rev_fail"}

Item(f, n, o) == [folder |-> f, name |-> n, llm |-> o]
Items == {Item(f, n, o) : f \in Folders, n \in Names, o \in Outcomes}
Path(it) == <<it.folder, it.name>>

\* archives: sets of at most n structured-result files with distinct paths
Archives(n) ==
    {a \in SUBSET Items :
        /\ Cardinality(a) <= n
        /\ \A x, y \in a : Path(x) = Path(y) => x = y}

None == "none"
FailPrefix == "processing failed: "

NewRun(k, a, sr) ==
    [kind |-> k, archive |-> a, skip_review |-> sr, pc |-> "pending",
     extract_dir |-> 0, dir_existed |-> FALSE, cleaned |-> FALSE,
     vision_results |-> <<>>, idx |-> 1, results |-> <<>>,
     json_reports |-> [f \in ReportFolders |-> <<>>], json_paths |-> {},
     calls |-> <<>>, response |-> None, reported |-> {}]

\* one request of either kind, with any archive of at most MaxItems files
BatchInit ==
    /\ clock = 1 /\ dirs = <<>> /\ zips = {} /\ owner = 0
    /\ \E k \in {"zip", "folder"}, a \in Archives(MaxItems), sr \in BOOLEAN :
          runs = <<NewRun(k, a, sr)>>
    /\ ChunkIdle /\ FixIdle /\ ParseIdle /\ GenIdle /\ FmtIdle /\ IngIdle /\ ExtIdle

\* two archive uploads
SmallArchives == {a \in Archives(1) : \A x \in a : x.folder = "rail" /\ x.llm = "ok"}
RunsInit ==
    /\ clock = 1 /\ dirs = <<>> /\ zips = {} /\ owner = 0
    /\ \E a, b \in SmallArchives :
          runs = <<NewRun("zip", a, FALSE), NewRun("zip", b, FALSE)>>
    /\ ChunkIdle /\ FixIdle /\ ParseIdle /\ GenIdle /\ FmtIdle /\ IngIdle /\ ExtIdle

Step(r, new) ==
    runs' = [runs EXCEPT ![r] = [f \in DOMAIN runs[r] |->
                IF f \in DOMAIN new THEN new[f] ELSE runs[r][f]]]

\* datetime.now() advances
Tick ==
    /\ clock < MaxClock
    /\ clock' = clock + 1
    /\ UNCHANGED <<dirs, zips, runs, owner, chunkVars, fixVars, parseVars, genVars, fmtVars, ingVars, extVars>>

\* the handler is entered.  process_vision_zip awaits its two downloads;
\* process_vision_folder has no await and runs on to its end.
Request(r) ==
    /\ runs[r].pc = "pending"
    /\ IF runs[r].kind = "zip"
       THEN /\ owner \in {0, r}
            /\ Step(r, [pc |-> "download"])
            /\ owner' = 0
       ELSE /\ owner = 0
            /\ Step(r, [pc |-> "read"])
            /\ owner' = r
    /\ UNCHANGED <<clock, dirs, zips, chunkVars, fixVars, parseVars, genVars, fmtVars, ingVars, extVars>>

\* the files of directory d ("result_<d>"), none when it does not exist
FilesOf(d) == IF d \in DOMAIN dirs THEN dirs[d] ELSE {}

\* extract_zip_from_bytes + extract_zip: temp_<ts>.zip is written, the
\* directory result_<ts> is made (exist_ok) and the entries are written into
\* it, then the temporary zip is unlinked.  A bad archive raises inside
\* zipfile.ZipFile after both were created: the handler answers 500.
Extract(r) ==
    /\ runs[r].pc = "download" /\ runs[r].kind = "zip"
    /\ owner = 0
    /\ LET ts == clock
           written == {[folder |-> x.folder, name |-> x.name, llm |-> x.llm, run |-> r]
                          : x \in runs[r].archive}
           kept == {f \in FilesOf(ts) : \A x \in written : Path(x) # Path(f)}
       IN  \E bad \in BOOLEAN :
              IF bad
              THEN /\ zips' = zips \cup {ts}
                   /\ dirs' = [d \in DOMAIN dirs \cup {ts} |-> FilesOf(d)]
                   /\ Step(r, [pc |-> "done", response |-> "500"])
                   /\ owner' = 0
              ELSE /\ zips' = zips \ {ts}
                   /\ dirs' = [d \in DOMAIN dirs \cup {ts} |->
                                 IF d = ts THEN kept \cup written ELSE dirs[d]]
                   /\ Step(r, [pc |-> "read", extract_dir |-> ts,
                               dir_existed |-> ts \in DOMAIN dirs])
                   /\ owner' = r
    /\ UNCHANGED <<clock, chunkVars, fixVars, parseVars, genVars, fmtVars, ingVars, extVars>>

\* sorted(json_dir.glob("*.json")) of one folder
RECURSIVE SortByName(_)
SortByName(fs) ==
    IF fs = {} THEN <<>>
    ELSE LET m == CHOOSE x \in fs : \A y \in fs : x.name <= y.name
         IN  <<m>> \o SortByName(fs \ {m})

\* the orders in which iterdir() may list the top-level folders
FolderOrders ==
    {o \in [1..Cardinality(Folders) -> Folders] :
        \A i, j \in 1..Cardinality(Folders) : i # j => o[i] # o[j]}

RECURSIVE ListFolders(_, _, _)
ListFolders(fs, o, k) ==
    IF k > Len(o) THEN <<>>
    ELSE SortByName({f \in fs : f.folder = o[k]}) \o ListFolders(fs, o, k + 1)

\* the files process_vision_folder finds under folder_path
FolderFiles(r) ==
    {[folder |-> x.folder, name |-> x.name, llm |-> x.llm, run |-> r]
        : x \in runs[r].archive}

\* a handler that does not look whether the list is empty
ReadNoEmptyCheck(r) ==
    /\ runs[r].pc = "read" /\ owner = r
    /\ LET fs == IF runs[r].kind = "zip" THEN FilesOf(runs[r].extract_dir)
                 ELSE FolderFiles(r)
       IN  \E fails \in BOOLEAN, o \in FolderOrders :
              IF fails
              THEN Step(r, [pc |-> "done", response |-> "500"]) /\ owner' = 0
              ELSE Step(r, [pc |-> "loop", vision_results |-> ListFolders(fs, o, 1),
                            idx |-> 1])
                      /\ owner' = r
    /\ UNCHANGED <<clock, dirs, zips, chunkVars, fixVars, parseVars, genVars, fmtVars, ingVars, extVars>>

\* read_vision_results, then the check for an empty list (HTTP 400).  A
\* failing directory listing raises out of the handler's try (HTTP 500).
\* Neither exit calls zip_processor.cleanup.
Read(r) ==
    /\ runs[r].pc = "read" /\ owner = r
    /\ LET fs == IF runs[r].kind = "zip" THEN FilesOf(runs[r].extract_dir)
                 ELSE FolderFiles(r)
       IN  \E fails \in BOOLEAN, o \in FolderOrders :
              IF fails
              THEN Step(r, [pc |-> "done", response |-> "500"]) /\ owner' = 0
              ELSE LET vr == ListFolders(fs, o, 1)
                   IN  IF vr = <<>>
                       THEN Step(r, [pc |-> "done", response |-> "400"]) /\ owner' = 0
                       ELSE Step(r, [pc |-> "loop", vision_results |-> vr, idx |-> 1])
                               /\ owner' = r
    /\ UNCHANGED <<clock, dirs, zips, chunkVars, fixVars, parseVars, genVars, fmtVars, ingVars, extVars>>

\* the parameters of DocumentGenerator.generate (besides self)
GenerateParams == {"vision_result", "use_rag"}
\* the keyword arguments of the call in both batch loops
GenerateKwargs == {"vision_result", "use_rag", "metadata", "folder"}

\* document_generator.generate(...) as called by the batch loop: Python
\* raises TypeError for a keyword the function does not take, before its
\* body runs; otherwise the language model answers or fails
Generate(it) ==
    IF ~(GenerateKwargs \subseteq GenerateParams)
    THEN [ok |-> FALSE, called |-> FALSE, val |-> "TypeError"]
    ELSE IF it.llm = "gen_fail"
    THEN [ok |-> FALSE, called |-> TRUE, val |-> "GenerationError"]
    ELSE [ok |-> TRUE, called |-> TRUE, val |-> "generated"]

\* document_reviewer.review(document, vision_result)
Review(it, doc) ==
    IF it.llm = "rev_fail"
    THEN [ok |-> FALSE, called |-> TRUE, val |-> "ReviewError"]
    ELSE [ok |-> TRUE, called |-> TRUE, val |-> "reviewed"]

\* the entry appended by the except branch of the loop
FailedEntry(kind, it, msg) ==
    IF kind = "zip"
    THEN [filename |-> it.name, folder |-> it.folder,
          document |-> <<FailPrefix, msg>>, error |-> None]
    ELSE [filename |-> it.name, folder |-> it.folder,
          document |-> <<"", "">>, error |-> msg]

SuccessEntry(it, doc) ==
    [filename |-> it.name, folder |-> it.folder, document |-> <<"", doc>>, error |-> None]

Failed(e)  == e.error # None \/ e.document[1] = FailPrefix
Message(e) == IF e.error # None THEN e.error ELSE e.document[2]

\* the loop body with the review called whenever it is not opted out,
\* whether or not generate returned
ProcessItemReviewAnyway(r) ==
    /\ runs[r].pc = "loop" /\ owner = r
    /\ runs[r].idx <= Len(runs[r].vision_results)
    /\ LET it == runs[r].vision_results[runs[r].idx]
           g == Generate(it)
           v == IF ~runs[r].skip_review THEN Review(it, g.val) ELSE g
           made == (IF g.called THEN <<"generate">> ELSE <<>>)
                      \o (IF ~runs[r].skip_review THEN <<"review">> ELSE <<>>)
           entry == IF v.ok THEN SuccessEntry(it, v.val)
                    ELSE FailedEntry(runs[r].kind, it, v.val)
       IN  Step(r, [idx |-> runs[r].idx + 1,
                    results |-> Append(runs[r].results, entry),
                    calls |-> Append(runs[r].calls, made)])
    /\ UNCHANGED <<clock, dirs, zips, owner, chunkVars, fixVars, parseVars, genVars, fmtVars, ingVars, extVars>>

\* one pass of the batch loop body for item idx: generate, review unless
\* skipped, record; any exception of the two records a failed entry
ProcessItem(r) ==
    /\ runs[r].pc = "loop" /\ owner = r
    /\ runs[r].idx <= Len(runs[r].vision_results)
    /\ LET it == runs[r].vision_results[runs[r].idx]
           g == Generate(it)
           v == IF g.ok /\ ~runs[r].skip_review THEN Review(it, g.val) ELSE g
           made == (IF g.called THEN <<"generate">> ELSE <<>>)
                      \o (IF g.ok /\ ~runs[r].skip_review THEN <<"review">> ELSE <<>>)
           entry == IF v.ok THEN SuccessEntry(it, v.val)
                    ELSE FailedEntry(runs[r].kind, it, v.val)
           report == [filename |-> it.name, folder |-> it.folder,
                      document_content |-> v.val,
                      revised |-> ~runs[r].skip_review]
           jr == runs[r].json_reports
       IN  Step(r, [idx |-> runs[r].idx + 1,
                    results |-> Append(runs[r].results, entry),
                    calls |-> Append(runs[r].calls, made),
                    json_reports |->
                        IF v.ok /\ it.folder \in ReportFolders
                        THEN [jr EXCEPT ![it.folder] = Append(@, report)]
                        ELSE jr])
    /\ UNCHANGED <<clock, dirs, zips, owner, chunkVars, fixVars, parseVars, genVars, fmtVars, ingVars, extVars>>

\* after the loop: one JSON report per folder with reports; the zip run then
\* calls zip_processor.cleanup(extract_dir) and answers with the zip of the
\* artifacts, the folder run answers with the result list.  reported is the
\* set of items (folder, file) that the answer says something about: for
\* the zip run the items inside the artifacts, for the folder run the
\* entries of 'results'.
Finish(r) ==
    /\ runs[r].pc = "loop" /\ owner = r
    /\ runs[r].idx > Len(runs[r].vision_results)
    /\ LET jp == {f \in ReportFolders : runs[r].json_reports[f] # <<>>}
           jr == runs[r].json_reports
           res == runs[r].results
       IN  IF runs[r].kind = "zip"
           THEN /\ dirs' = [d \in DOMAIN dirs \ {runs[r].extract_dir} |-> dirs[d]]
                /\ Step(r, [pc |-> "done", json_paths |-> jp, cleaned |-> TRUE,
                            response |-> "200",
                            reported |-> UNION {{<<f, jr[f][i].filename>> :
                                                    i \in 1..Len(jr[f])} : f \in jp}])
           ELSE /\ dirs' = dirs
                /\ Step(r, [pc |-> "done", json_paths |-> jp, response |-> "200",
                            reported |-> {<<res[i].folder, res[i].filename>> :
                                             i \in 1..Len(res)}])
    /\ owner' = 0
    /\ UNCHANGED <<clock, zips, chunkVars, fixVars, parseVars, genVars, fmtVars, ingVars, extVars>>

BatchNext ==
    \/ Tick
    \/ \E r \in DOMAIN runs : Request(r)
    \/ \E r \in DOMAIN runs : Extract(r)
    \/ \E r \in DOMAIN runs : Read(r)
    \/ \E r \in DOMAIN runs : ProcessItem(r)
    \/ \E r \in DOMAIN runs : Finish(r)

\* one batch run of either kind
SpecBatch == BatchInit /\ [][BatchNext]_vars
\* two archive uploads to one server
SpecRuns == RunsInit /\ [][BatchNext]_vars

(***************************************************************************)
(* Claims about the batch runs.                                            *)
(***************************************************************************)
\* item it of run r is one whose generation or review is forced to fail
Forced(r, it) ==
    \/ it.llm = "gen_fail"
    \/ it.llm = "rev_fail" /\ ~runs[r].skip_review

\* C1 (as claimed), under SpecBatch: when the loop has run over N items of
\* which exactly one, item j, has its generation or review fail, the result
\* list has N entries, entry j is failed and carries the error message, and
\* the other N-1 entries are successes carrying their final text.
C1_OneFailureIsolated ==
    \A r \in DOMAIN runs :
        LET vr == runs[r].vision_results
            res == runs[r].results
        IN  (/\ runs[r].pc = "done" /\ runs[r].response = "200"
             /\ Cardinality({j \in 1..Len(vr) : Forced(r, vr[j])}) = 1)
            => /\ Len(res) = Len(vr)
               /\ \A j \in 1..Len(vr) :
                     IF Forced(r, vr[j])
                     THEN Failed(res[j])
                             /\ Message(res[j]) \in {"GenerationError", "ReviewError"}
                     ELSE ~Failed(res[j])
                             /\ res[j].document[2] \in {"generated", "reviewed"}

\* C2 (as claimed), under SpecRuns: a finished process_vision_zip request
\* whose archive was extracted has called cleanup on its directory.
C2_CleanupOnEveryPath ==
    \A r \in DOMAIN runs :
        (runs[r].kind = "zip" /\ runs[r].pc = "done" /\ runs[r].extract_dir # 0)
            => runs[r].cleaned

\* C3 (as claimed), under SpecRuns: the directory a run extracts into did
\* not exist before (it is freshly created, not one another run made), and
\* the run reads from it only the items of its own archive.
C3_FreshOwnDirectory ==
    \A r \in DOMAIN runs :
        runs[r].extract_dir # 0
            => /\ ~runs[r].dir_existed
               /\ \A i \in 1..Len(runs[r].vision_results) :
                     runs[r].vision_results[i].run = r

(***************************************************************************)
(* PDFGenerator._fix_line_breaks (app/services/pdf_generator.py)           *)
(***************************************************************************)
Gap == <<Star(Space), Plus({NL}), Star(Space)>>
\* \d+\.?\d*
Number == <<Plus(Digit), Opt({"."}), Star(Digit)>>
DegC == <<"deg", "C">>
Particles == <<<<"eun">>, <<"neun">>, <<"i">>, <<"ga">>, <<"eul">>, <<"reul">>,
               <<"ui">>, <<"e">>, <<"wa">>, <<"gwa">>>>

\* step 0: \r\n and \r become \n, runs of \n become one \n
NormalizeBreaks(s) ==
    Sub(<<Rep({NL}, 2, Inf)>>, <<T(<<NL>>)>>,
        Replace(Replace(s, <<CR, NL>>, <<NL>>), <<CR>>, <<NL>>))

\* fix_paren: every whitespace run with a line break becomes one space
FixParen(m) == Sub(Gap, <<T(<<SP>>)>>, m)

RECURSIVE ParenBuild(_, _, _, _)
ParenBuild(ms, j, s, cur) ==
    IF j > Len(ms) THEN SubSeq(s, cur, Len(s))
    ELSE SubSeq(s, cur, ms[j].b - 1)
            \o FixParen(SubSeq(s, ms[j].b, MEnd(ms[j]) - 1))
            \o ParenBuild(ms, j + 1, s, MEnd(ms[j]))

\* re.sub(r'\([^)]*\n[^)]*\)', fix_paren, text)
ParenPass(s) ==
    ParenBuild(Scan(<<Lit(<<"(">>), NRep({")"}, 0, Inf), Lit(<<NL>>),
                      NRep({")"}, 0, Inf), Lit(<<")">>)>>, s, 1), 1, s, 1)

\* step 1: for _ in range(10): stop when a pass changes nothing
RECURSIVE ParenLoop(_, _)
ParenLoop(s, n) ==
    IF n = 0 THEN s
    ELSE LET t == ParenPass(s) IN IF t = s THEN s ELSE ParenLoop(t, n - 1)
ParenRounds == 10

\* step 2: (\d+)\.\s*\n\s*(\d+) -> \1.\2
Step2(s) ==
    Sub(<<Plus(Digit), Lit(<<".">>), Star(Space), Lit(<<NL>>), Star(Space), Plus(Digit)>>,
        <<G(1, 1), T(<<".">>), G(6, 6)>>, s)
\* step 3: <sin roe do>\s*\n+\s*(\d)
Step3(s) ==
    Sub(<<Lit(<<"sin", "roe", "do">>)>> \o Gap \o <<One(Digit)>>,
        <<T(<<"sin", "roe", "do", SP>>), G(5, 5)>>, s)
\* step 4: (\d+\.?\d*%)\s*,\s*\n+\s*(\d) -> \1, \2
Step4(s) ==
    Sub(Number \o <<Lit(<<"%">>), Star(Space), Lit(<<",">>)>> \o Gap \o <<One(Digit)>>,
        <<G(1, 4), T(<<",", SP>>), G(10, 10)>>, s)
\* step 5: ([hangul]),\s*\n+\s*(\d) -> \1, \2
Step5(s) ==
    Sub(<<One(Hangul), Lit(<<",">>)>> \o Gap \o <<One(Digit)>>,
        <<G(1, 1), T(<<",", SP>>), G(6, 6)>>, s)
\* step 6: <on do>(neun)? / <seup do>(neun)? before a number; degrees
Step6a(s) ==
    Sub(<<Lit(<<"on", "do">>), Opt({"neun"})>> \o Gap \o <<One(Digit)>>,
        <<T(<<"on", "do", "neun", SP>>), G(6, 6)>>, s)
Step6b(s) ==
    Sub(<<Lit(<<"seup", "do">>), Opt({"neun"})>> \o Gap \o <<One(Digit)>>,
        <<T(<<"seup", "do", "neun", SP>>), G(6, 6)>>, s)
Step6c(s) ==
    Sub(Number \o <<Lit(DegC), Star(Space), Lit(<<",">>)>> \o Gap \o <<One(Digit)>>,
        <<G(1, 4), T(<<",", SP>>), G(10, 10)>>, s)
Step6d(s) ==
    Sub(Number \o Gap \o <<Lit(DegC)>>, <<G(1, 3), G(7, 7)>>, s)
\* step 7: ([hangul])\s*\n+\s*(\d) -> \1 \2
Step7(s) ==
    Sub(<<One(Hangul)>> \o Gap \o <<One(Digit)>>, <<G(1, 1), T(<<SP>>), G(5, 5)>>, s)
\* step 8: number with unit, line break, hangul -> joined
Step8a(s) ==
    Sub(Number \o <<Lit(DegC)>> \o Gap \o <<One(Hangul)>>, <<G(1, 4), G(8, 8)>>, s)
Step8b(s) ==
    Sub(Number \o <<Lit(<<"%">>)>> \o Gap \o <<One(Hangul)>>, <<G(1, 4), G(8, 8)>>, s)
Step8c(s) ==
    Sub(Number \o Gap \o <<One(Hangul)>>, <<G(1, 3), G(7, 7)>>, s)
\* step 9: closing parenthesis, line break, hangul -> joined
Step9a(s) ==
    Sub(<<Lit(<<")">>)>> \o Gap \o <<One(Hangul)>>, <<T(<<")">>), G(5, 5)>>, s)
Step9b(s) ==
    Sub(<<Lit(<<")">>)>> \o Gap \o <<Alt(Particles)>>, <<T(<<")">>), G(5, 5)>>, s)
\* step 10: colon, line break, hangul
Step10(s) ==
    Sub(<<Lit(<<":">>)>> \o Gap \o <<One(Hangul)>>, <<T(<<":", SP>>), G(5, 5)>>, s)
\* step 11: comma, line break, digit or hangul
Step11a(s) ==
    Sub(<<Lit(<<",">>)>> \o Gap \o <<One(Digit)>>, <<T(<<",", SP>>), G(5, 5)>>, s)
Step11b(s) ==
    Sub(<<Lit(<<",">>)>> \o Gap \o <<One(Hangul)>>, <<T(<<",", SP>>), G(5, 5)>>, s)
\* step 12: \n(?!\d+\.\s)(?!-\s)(?!$) -> one space
Step12(s) ==
    Sub(<<Lit(<<NL>>),
          NotAhead(<< <<Plus(Digit), Lit(<<".">>), One(Space)>> >>),
          NotAhead(<< <<Lit(<<"-">>), One(Space)>> >>),
          NotAhead(<< <<Eos>> >>)>>,
        <<T(<<SP>>)>>, s)
\* step 13: two or more spaces -> one
Step13(s) == Sub(<<Lit(<<SP>>), Plus({SP})>>, <<T(<<SP>>)>>, s)

\* _fix_line_breaks(text).  t1 is the text after steps 0 and 1, t6 after
\* steps 2 to 6; each is bound as a value before the later steps start
fix_line_breaks(s) ==
    IF s = <<>> THEN s
    ELSE CHOOSE r \in UNION {
            {Step13(Step12(Step11b(Step11a(Step10(Step9b(Step9a(
                 Step8c(Step8b(Step8a(Step7(t6))))))))))) :
               t6 \in {Step6d(Step6c(Step6b(Step6a(Step5(Step4(Step3(Step2(t1))))))))}} :
            t1 \in {ParenLoop(NormalizeBreaks(s), ParenRounds)}} : TRUE

(* Input texts: concatenations of at most MaxFixPieces pieces. *)
MaxFixPieces == 4
FixPieces == {<<"1", ".", NL>>, <<"1", ".", SP>>, <<"-", SP>>, <<NL>>, <<"ga">>,
              <<"(">>, <<")">>, <<"2">>, <<",">>}

RECURSIVE FixSeqs(_)
FixSeqs(n) ==
    IF n = 0 THEN {<<>>}
    ELSE LET shorter == FixSeqs(n - 1)
         IN  shorter \cup {Append(q, p) : q \in {r \in shorter : Len(r) = n - 1},
                                          p \in FixPieces}
FixTexts == {Concat(q) : q \in FixSeqs(MaxFixPieces)}

FixInit ==
    /\ ftext \in FixTexts
    /\ fonce = <<>> /\ ftwice = <<>> /\ fpc = "start"
    /\ ChunkIdle /\ ParseIdle /\ BatchIdle /\ GenIdle /\ FmtIdle /\ IngIdle /\ ExtIdle

\* first application
FixOnce ==
    /\ fpc = "start"
    /\ fonce' = fix_line_breaks(ftext)
    /\ fpc' = "once"
    /\ UNCHANGED <<ftext, ftwice, chunkVars, parseVars, batchVars, genVars, fmtVars, ingVars, extVars>>

\* the result is passed through the function again
FixTwice ==
    /\ fpc = "once"
    /\ ftwice' = fix_line_breaks(fonce)
    /\ fpc' = "twice"
    /\ UNCHANGED <<ftext, fonce, chunkVars, parseVars, batchVars, genVars, fmtVars, ingVars, extVars>>

FixNext == FixOnce \/ FixTwice
SpecFix == FixInit /\ [][FixNext]_vars

\* C4 (as claimed): applying _fix_line_breaks to its own result changes
\* nothing, f(f(x)) = f(x).
C4_Idempotent == fpc = "twice" => ftwice = fonce

(***************************************************************************)
(* PDFGenerator._parse_document_content (app/services/pdf_generator.py),   *)
(* section passes: the separator pre-pass, pattern 1 and pattern 2.  The   *)
(* labels of the reports modelled here are not names of composite sections,*)
(* so the sub-field extraction that follows adds no key.                   *)
(***************************************************************************)
\* a dict: a function from keys to values
Put(d, k, v) == [x \in (DOMAIN d) \cup {k} |-> IF x = k THEN v ELSE d[x]]

\* field_name.replace(' ', '_').strip()
Key(name) == Strip(Replace(name, <<SP>>, <<"_">>))

\* separator runs are removed, blank-line runs collapsed
PrePass(s) ==
    LET a == Sub(<<Rep({"-"}, 3, Inf)>>, <<>>, s)
        b == Sub(<<Rep({"_"}, 3, Inf)>>, <<>>, a)
        c == Sub(<<Rep({"box"}, 3, Inf)>>, <<>>, b)
        d == Sub(<<Rep({"bold"}, 3, Inf)>>, <<>>, c)
    IN  Sub(<<Lit(<<NL>>), Star(Space), Lit(<<NL>>), Star(Space), Lit(<<NL>>)>>,
            <<T(<<NL, NL>>)>>, d)

\* \[([^\]]+)\]\s*\n(.*?)(?=\n\[|\Z)  with re.DOTALL
pattern1 ==
    <<Lit(<<"[">>), NRep({"]"}, 1, Inf), Lit(<<"]">>), Star(Space), Lit(<<NL>>),
      LazyN({}, 0, Inf), LookAhead(<< <<Lit(<<NL, "[">>)>>, <<EoZ>> >>)>>

\* \[([^\]]+)\]([^\[\n]+)
pattern2 == <<Lit(<<"[">>), NRep({"]"}, 1, Inf), Lit(<<"]">>), NRep({"[", NL}, 1, Inf)>>

RECURSIVE PrimaryFill(_, _, _, _)
PrimaryFill(ms, j, s, d) ==
    IF j > Len(ms) THEN d
    ELSE PrimaryFill(ms, j + 1, s,
                     Put(d, Key(Group(s, ms[j], 2, 2)), Strip(Group(s, ms[j], 6, 6))))

\* for field_name, value in re.findall(pattern1, ...): parsed[key] = value.strip()
PrimaryPass(s) == PrimaryFill(Scan(pattern1, s, 1), 1, s, <<>>)

RECURSIVE SecondaryFill(_, _, _, _)
SecondaryFill(ms, j, s, d) ==
    IF j > Len(ms) THEN d
    ELSE LET k == Key(Group(s, ms[j], 2, 2))
         IN  SecondaryFill(ms, j + 1, s,
                 IF k \notin DOMAIN d \/ d[k] = <<>>
                 THEN Put(d, k, Strip(Group(s, ms[j], 4, 4)))
                 ELSE d)

\* a parser without the pattern 2 loop
SecondaryPassSkipped(d, s) == d

\* a pattern 2 loop without the test of line 281: every inline match assigns
RECURSIVE OverwriteFill(_, _, _, _)
OverwriteFill(ms, j, s, d) ==
    IF j > Len(ms) THEN d
    ELSE OverwriteFill(ms, j + 1, s,
                       Put(d, Key(Group(s, ms[j], 2, 2)), Strip(Group(s, ms[j], 4, 4))))
SecondaryPassOverwrites(d, s) == OverwriteFill(Scan(pattern2, s, 1), 1, s, d)

\* for field_name, value in re.findall(pattern2, ...): fill absent or empty keys
SecondaryPass(d, s) == SecondaryFill(Scan(pattern2, s, 1), 1, s, d)

\* the two section passes, lines 253-282
SectionPasses(c) ==
    LET s == PrePass(c) IN SecondaryPass(PrimaryPass(s), s)

(* Sub-field extraction, lines 283-378.  Section and sub-field names are   *)
(* written syllable by syllable.                                           *)
RouteInfo  == <<"no", "seon", "jeong", "bo">>
Route      == <<"no", "seon">>
Location   == <<"wi", "chi">>
EnvInfo    == <<"hwan", "gyeong", "jeong", "bo">>
EnvFields  == <<<<"ji", "yeok">>, <<"chwal", "yeong", "il", "si">>, <<"nal", "ssi">>,
                <<"on", "do">>, <<"seup", "do">>>>
DefectInfo  == <<"gyeol", "ham", "jeong", "bo">>
DefectType  == <<"gyeol", "ham", "yu", "hyeong">>
DefectState == <<"gyeol", "ham", "sang", "tae">>
RiskEval    == <<"wi", "heom", "do", "pyeong", "ga">>
GradeLabel  == <<"wi", "heom", "do", SP, "deung", "geup", ":">>
GradeKey    == <<"wi", "heom", "do", "_", "deung", "geup">>
GradeCodes  == <<<<"E">>, <<"O">>, <<"X", "1">>, <<"X", "2">>, <<"S">>>>
Rationale   == <<"pan", "jeong", "geun", "geo">>
RationaleSection == <<"wi", "heom", "do", "deung", "geup", "_", "pan", "jeong", "geun", "geo">>
RationaleNames ==
    <<<<"wi", "heom", "do", "_", "deung", "geup", "_", "pan", "jeong", "geun", "geo">>,
      <<"pan", "jeong", "_", "geun", "geo">>,
      <<"wi", "heom", "do", "deung", "geup", "pan", "jeong", "geun", "geo">>>>
Reference   == <<"cham", "jo", "_", "gyu", "jeong">>
ReferenceNames ==
    <<<<"cham", "jo", "gyu", "jeong">>, <<"cham", "jo", "_", "gyu", "jeong">>,
      <<"cham", "go", "_", "gyu", "jeong">>, <<"cham", "go", "gyu", "jeong">>>>
WorkHistory == <<"jak", "eop", "i", "ryeok">>
WorkDate    == <<"jak", "eop", "il", "ja">>
WorkContent == <<"jak", "eop", "nae", "yong">>

NoMatch == [b |-> 0, p |-> <<>>]

\* re.search: the leftmost match of re in s, NoMatch when there is none
RECURSIVE SearchFrom(_, _, _)
SearchFrom(re, s, pos) ==
    IF pos > Len(s) + 1 THEN NoMatch
    ELSE LET r == MatchFrom(re, 1, s, pos)
         IN  IF r = FAIL THEN SearchFrom(re, s, pos + 1) ELSE [b |-> pos, p |-> r]
Search(re, s) == SearchFrom(re, s, 1)

\* q in s
Contains(s, q) == \E i \in 1..(Len(s) + 1) : HasAt(s, i, q)

\* s.split('\n')[0]
RECURSIVE FirstLine(_)
FirstLine(s) ==
    IF s = <<>> \/ Head(s) = NL THEN <<>> ELSE <<Head(s)>> \o FirstLine(Tail(s))

\* (.+?) and, with re.DOTALL, (.+?)
Dot    == LazyN({NL}, 1, Inf)
DotAll == LazyN({}, 1, Inf)
\* a closing (?:\n|$) of a searched pattern: only group 1 is read
LineEnd == LookAhead(<< <<Lit(<<NL>>)>>, <<Eos>> >>)

\* if '<label>:' in info: m = re.search(r'<label>:\s*(.+?)(?:\n|$)', info);
\* if m: parsed[key] = m.group(1).strip()
SubField(d, info, label, key) ==
    IF ~Contains(info, label \o <<":">>) THEN d
    ELSE LET m == Search(<<Lit(label \o <<":">>), Star(Space), Dot, LineEnd>>, info)
         IN  IF m = NoMatch THEN d ELSE Put(d, key, Strip(Group(info, m, 3, 3)))

RouteStep(d) ==
    IF RouteInfo \notin DOMAIN d THEN d
    ELSE SubField(SubField(d, d[RouteInfo], Route, Route), d[RouteInfo], Location, Location)

\* the other fields' names, each with its colon, then \n and $
EnvStops(f) ==
    [j \in 1..Len(SelectSeq(EnvFields, LAMBDA g : g # f)) |->
        <<Lit(SelectSeq(EnvFields, LAMBDA g : g # f)[j] \o <<":">>)>>]
        \o << <<Lit(<<NL>>)>>, <<Eos>> >>

RECURSIVE EnvFill(_, _, _)
EnvFill(d, info, j) ==
    IF j > Len(EnvFields) THEN d
    ELSE LET f == EnvFields[j]
             m == Search(<<Lit(f \o <<":">>), Star(Space), Dot, LookAhead(EnvStops(f))>>, info)
         IN  EnvFill(IF m = NoMatch THEN d ELSE Put(d, f, Strip(Group(info, m, 3, 3))),
                     info, j + 1)

EnvStep(d) == IF EnvInfo \notin DOMAIN d THEN d ELSE EnvFill(d, d[EnvInfo], 1)

DefectStep(d) ==
    IF DefectInfo \notin DOMAIN d THEN d
    ELSE LET info == d[DefectInfo]
             d1 == SubField(d, info, DefectType, DefectType)
             m == Search(<<Lit(DefectState \o <<":">>), Star(Space), DotAll,
                           LookAhead(<< <<Lit(<<NL, NL>>)>>,
                                        <<Lit(<<NL>> \o DefectType)>>, <<EoZ>> >>)>>, info)
         IN  IF Contains(info, DefectState \o <<":">>) /\ m # NoMatch
             THEN Put(d1, DefectState, Strip(Group(info, m, 3, 3)))
             ELSE d1

\* a grade step that ignores the sub-label
RiskStepFirstLineOnly(d) ==
    IF RiskEval \notin DOMAIN d THEN d
    ELSE LET info == d[RiskEval]
             first_line == Strip(FirstLine(Strip(info)))
             g == Search(<<Bos, Alt(GradeCodes),
                           LookAhead(<< <<One(Space)>>, <<Eos>> >>)>>, first_line)
         IN  IF Strip(info) = <<>> THEN d
             ELSE IF g # NoMatch THEN Put(d, GradeKey, Group(first_line, g, 2, 2))
             ELSE Put(d, GradeKey, first_line)

\* lines 324-339
RiskStep(d) ==
    IF RiskEval \notin DOMAIN d THEN d
    ELSE LET info == d[RiskEval]
         IN  IF Contains(info, GradeLabel)
             THEN LET m == Search(<<Lit(GradeLabel), Star(Space), Dot, LineEnd>>, info)
                  IN  IF m = NoMatch THEN d
                      ELSE Put(d, GradeKey, Strip(Group(info, m, 3, 3)))
             ELSE IF Strip(info) # <<>>
             THEN LET first_line == Strip(FirstLine(Strip(info)))
                      g == Search(<<Bos, Alt(GradeCodes),
                                    LookAhead(<< <<One(Space)>>, <<Eos>> >>)>>, first_line)
                  IN  IF g # NoMatch THEN Put(d, GradeKey, Group(first_line, g, 2, 2))
                      ELSE Put(d, GradeKey, first_line)
             ELSE d

\* key in parsed and parsed[key].strip()
Filled(d, k) == k \in DOMAIN d /\ Strip(d[k]) # <<>>
\* key not in parsed or not parsed.get(key)
Blank(d, k) == k \notin DOMAIN d \/ d[k] = <<>>

\* a loop over the candidates without the break: the last filled one is copied
RECURSIVE LastFilled(_, _, _, _)
LastFilled(d, names, j, target) ==
    IF j > Len(names) THEN d
    ELSE LastFilled(IF Filled(d, names[j]) THEN Put(d, target, Strip(d[names[j]])) ELSE d,
                    names, j + 1, target)

\* for key in names: first filled one is copied to target
RECURSIVE FirstFilled(_, _, _, _)
FirstFilled(d, names, j, target) ==
    IF j > Len(names) THEN d
    ELSE IF Filled(d, names[j]) THEN Put(d, target, Strip(d[names[j]]))
    ELSE FirstFilled(d, names, j + 1, target)

\* lines 341-354
RationaleStep(d) ==
    LET d1 == IF Filled(d, RationaleSection)
              THEN Put(d, Rationale, Strip(d[RationaleSection])) ELSE d
        d2 == IF Blank(d1, Rationale) THEN FirstFilled(d1, RationaleNames, 1, Rationale)
              ELSE d1
    IN  IF Blank(d2, Rationale) /\ RiskEval \in DOMAIN d2
        THEN LET info == d2[RiskEval]
                 m == Search(<<Lit(<<"pan", "jeong">>), Star(Space),
                               Lit(<<"geun", "geo", ":">>), Star(Space), DotAll,
                               LookAhead(<< <<Lit(<<NL, "[">>)>>, <<EoZ>> >>)>>, info)
             IN  IF (Contains(info, <<"pan", "jeong", SP, "geun", "geo", ":">>)
                        \/ Contains(info, <<"pan", "jeong", "geun", "geo", ":">>))
                    /\ m # NoMatch
                 THEN Put(d2, Rationale, Strip(Group(info, m, 5, 5)))
                 ELSE d2
        ELSE d2

\* lines 356-363
ReferenceStep(d) ==
    IF Filled(d, Reference) THEN d ELSE FirstFilled(d, ReferenceNames, 1, Reference)

\* lines 365-376
WorkStep(d) ==
    IF WorkHistory \notin DOMAIN d THEN d
    ELSE SubField(SubField(d, d[WorkHistory], WorkDate, WorkDate),
                  d[WorkHistory], WorkContent, WorkContent)

SubFields(d) ==
    WorkStep(ReferenceStep(RationaleStep(RiskStep(DefectStep(EnvStep(RouteStep(d)))))))

parse_document_content(c) == SubFields(SectionPasses(c))

(* Reports: at most MaxSections sections.  A block section is a header    *)
(* line followed by the lines of its body; an inline section carries its  *)
(* text on the header line.                                               *)
MaxSections == 2
Labels == {<<"A">>, <<"B">>, <<"A", SP, "B">>}
Bodies == {<<>>, <<"f", "o", "o">>, <<"x", NL, "y">>,
           <<SP, "x", "[", "c", "]", "y", SP>>, <<SP, NL, "z">>}
Section == {sec \in [inline : BOOLEAN, label : Labels, body : Bodies] :
                ~(sec.inline /\ sec.body = <<>>)}

RECURSIVE Reports(_)
Reports(n) ==
    IF n = 0 THEN {<<>>}
    ELSE LET shorter == Reports(n - 1)
         IN  shorter \cup {Append(r, sec) : r \in {q \in shorter : Len(q) = n - 1},
                                            sec \in Section}

RenderSection(sec) ==
    <<"[">> \o sec.label \o <<"]">> \o
        (IF sec.inline THEN sec.body \o <<NL>>
         ELSE <<NL>> \o (IF sec.body = <<>> THEN <<>> ELSE sec.body \o <<NL>>))
Render(r) == Concat([i \in 1..Len(r) |-> RenderSection(r[i])])

\* reports with a risk section, alone or next to another section
RiskBodies == {<<"X", "2">>, <<"E", SP, "x">>, <<"X", "3">>, <<"S", "x">>,
               GradeLabel \o <<SP, "O">>,
               <<"E", NL>> \o GradeLabel \o <<"X", "1", SP, NL, "x">>,
               GradeLabel \o <<NL, "S">>}
RiskSections == {[inline |-> FALSE, label |-> RiskEval, body |-> b] : b \in RiskBodies}
OtherSections == {[inline |-> i, label |-> <<"B">>, body |-> <<"f", "o", "o">>] :
                      i \in BOOLEAN}
RiskReports ==
    {<<r>> : r \in RiskSections}
        \cup {<<r, o>> : r \in RiskSections, o \in OtherSections}
        \cup {<<o, r>> : r \in RiskSections, o \in OtherSections}

\* reports whose environment section has its sub-labels on one line, one
\* after the other without separators, in any order, a value possibly empty
EnvValues == {<<>>, <<"x">>, <<"x", SP, "y">>}
EnvItems  == [f : {EnvFields[j] : j \in DOMAIN EnvFields}, v : EnvValues]
EnvPairs  == {p \in EnvItems \X EnvItems : p[1].f # p[2].f}
EnvLines  == {<<it>> : it \in EnvItems} \cup EnvPairs
EnvLine(l) == Concat([i \in 1..Len(l) |-> l[i].f \o <<":">> \o l[i].v])
EnvReport(l) == <<[inline |-> FALSE, label |-> EnvInfo, body |-> EnvLine(l)]>>
EnvReports == {EnvReport(l) : l \in EnvLines}

\* the spellings under which the judgment rationale and the reference
\* regulation are looked up, in the order in which lines 341-363 consult them
RationaleOrder == <<RationaleSection, Rationale>> \o RationaleNames
ReferenceOrder == <<Reference>> \o ReferenceNames
Spellings(order) == {order[j] : j \in DOMAIN order}

\* reports of one or two block sections labelled with spellings of one field;
\* the last section may be empty
CandSection(l, b) == [inline |-> FALSE, label |-> l, body |-> b]
CandReportsOf(names) ==
    {<<CandSection(l, <<"f", "o", "o">>)>> : l \in names}
        \cup {<<CandSection(p[1], <<"f", "o", "o">>), CandSection(p[2], b)>> :
                  p \in {q \in names \X names : q[1] # q[2]}, b \in {<<"x">>, <<>>}}
CandReports == CandReportsOf(Spellings(RationaleOrder))
                   \cup CandReportsOf(Spellings(ReferenceOrder))

ParseInit ==
    /\ sections \in Reports(MaxSections) \cup RiskReports \cup EnvReports
                      \cup CandReports
    /\ content = Render(sections)
    /\ parsed = <<>> /\ ppc = "start" /\ jsec = [pc |-> Idle]
    /\ ChunkIdle /\ FixIdle /\ BatchIdle /\ GenIdle /\ FmtIdle /\ IngIdle /\ ExtIdle

DoParse ==
    /\ ppc = "start"
    /\ parsed' = parse_document_content(content)
    /\ ppc' = "done"
    /\ UNCHANGED <<sections, content, jsec, chunkVars, fixVars, batchVars, genVars, fmtVars,
                   ingVars, extVars>>

ParseNext == DoParse
SpecParse == ParseInit /\ [][ParseNext]_vars

\* the text on a header line up to the next bracket or line break
RECURSIVE UpTo(_)
UpTo(b) ==
    IF b = <<>> \/ Head(b) \in {"[", NL} THEN <<>> ELSE <<Head(b)>> \o UpTo(Tail(b))

AllBlocks(r) == \A i \in 1..Len(r) : ~r[i].inline
DistinctKeys(r) ==
    \A i, j \in 1..Len(r) : i # j => Key(r[i].label) # Key(r[j].label)

\* C9 (as claimed): for a report made of block sections with distinct labels,
\* every section's key is parsed to the section's trimmed body, also when a
\* body is empty and the next header follows directly.
C9_RoundTrip ==
    (ppc = "done" /\ AllBlocks(sections) /\ DistinctKeys(sections)) =>
        \A i \in 1..Len(sections) :
            /\ Key(sections[i].label) \in DOMAIN parsed
            /\ parsed[Key(sections[i].label)] = Strip(sections[i].body)

\* section i is inline, pattern 1 left its key absent, and no other inline
\* section of the report carries the same key
InlineCase(i) ==
    /\ sections[i].inline
    /\ UpTo(sections[i].body) # <<>>
    /\ Key(sections[i].label) \notin DOMAIN PrimaryPass(PrePass(content))
    /\ \A j \in 1..Len(sections) :
           (j # i /\ sections[j].inline) => Key(sections[j].label) # Key(sections[i].label)

\* C10: when a section carries its value on the header line and the primary
\* pass leaves its key absent, the result holds that key with the inline text,
\* up to the next bracket or line break, trimmed.  ("That key" is read as the
\* key of one inline section: of several inline sections with one key the
\* first non-empty one is kept, line 281.)
C10_InlineRecovered ==
    ppc = "done" =>
        \A i \in 1..Len(sections) :
            InlineCase(i) =>
                /\ Key(sections[i].label) \in DOMAIN parsed
                /\ parsed[Key(sections[i].label)] = Strip(UpTo(sections[i].body))

\* C10 witness: a parsed report of a block section and an inline section
\* whose key only the secondary pass filled, with a non-empty value
C10_Witness ==
    /\ ppc = "done"
    /\ Len(sections) = 2
    /\ \E i, j \in 1..Len(sections) :
          /\ ~sections[j].inline
          /\ Key(sections[j].label) \in DOMAIN parsed
          /\ parsed[Key(sections[j].label)] = <<"f", "o", "o">>
          /\ InlineCase(i)
          /\ parsed[Key(sections[i].label)] = <<"x">>

\* the text that follows the first occurrence of q in s
RECURSIVE After(_, _)
After(s, q) ==
    IF s = <<>> THEN <<>>
    ELSE IF HasAt(s, 1, q) THEN SubSeq(s, Len(q) + 1, Len(s))
    ELSE After(Tail(s), q)

\* the value of the grade sub-label in a risk body: the text after the
\* sub-label, up to the end of the line on which that text starts
ExplicitGrade(body) == Strip(FirstLine(LStrip(After(body, GradeLabel))))

\* line starts with code c, followed by white space or by nothing
StartsWithCode(line, c) ==
    /\ HasAt(line, 1, c)
    /\ (Len(line) = Len(c) \/ line[Len(c) + 1] \in Space)

IsRisk(i) == sections[i].label = RiskEval /\ ~sections[i].inline

\* C11: the risk grade is the value of the explicit grade sub-label of the
\* risk section when the sub-label is there; otherwise, when the first line of
\* the section starts with one of E, O, X1, X2, S, it is that code; a risk
\* section "X2" followed by another section gives grade "X2".
C11_RiskGrade ==
    ppc = "done" =>
        \A i \in 1..Len(sections) :
            IsRisk(i) =>
                LET body == sections[i].body
                    line == Strip(FirstLine(Strip(body)))
                IN  /\ (Contains(body, GradeLabel) /\ ExplicitGrade(body) # <<>>) =>
                            /\ GradeKey \in DOMAIN parsed
                            /\ parsed[GradeKey] = ExplicitGrade(body)
                    /\ ~Contains(body, GradeLabel) =>
                            \A k \in 1..Len(GradeCodes) :
                                StartsWithCode(line, GradeCodes[k]) =>
                                    /\ GradeKey \in DOMAIN parsed
                                    /\ parsed[GradeKey] = GradeCodes[k]
                    /\ (body = <<"X", "2">> /\ i < Len(sections)) =>
                            /\ GradeKey \in DOMAIN parsed
                            /\ parsed[GradeKey] = <<"X", "2">>

\* C11 witness: the risk section "X2" followed by another section has been
\* parsed, the grade is "X2" and the other section kept its own body
C11_Witness ==
    /\ ppc = "done"
    /\ Len(sections) = 2
    /\ IsRisk(1)
    /\ sections[1].body = <<"X", "2">>
    /\ ~sections[2].inline
    /\ GradeKey \in DOMAIN parsed
    /\ parsed[GradeKey] = <<"X", "2">>
    /\ parsed[<<"B">>] = <<"f", "o", "o">>

\* C12 (as claimed), under SpecBatch: after a completed batch run a category
\* has a batch JSON report if and only if at least one item of the category
\* was processed in the run (json_paths holds at most one path per category).
C12_ArtifactPerCategory ==
    \A r \in DOMAIN runs :
        (runs[r].pc = "done" /\ runs[r].response = "200") =>
            \A f \in Folders \cup ReportFolders :
                f \in runs[r].json_paths
                    <=> \E j \in 1..Len(runs[r].vision_results) :
                            runs[r].vision_results[j].folder = f

(***************************************************************************)
(* DocumentGenerator (app/services/generator.py) with the vector store     *)
(* (VectorService.search) and the language model as collaborators.         *)
(*                                                                         *)
(* gen   one call of generate: its arguments, what the collaborators will  *)
(*       answer, the position in the body, and the locals                  *)
(***************************************************************************)
MaxDetections == 2
MaxChunks == 2
\* settings.rag_threshold, and distances, in tenths
rag_threshold == 1

RailTypes == {"", "KS50", "UIC60"}
Detections ==
    {[cls_name |-> c[1], detail |-> c[2], rail_type |-> t] :
        c \in {<<"", "">>, <<"rail", "">>, <<"rail", "crack">>}, t \in RailTypes}
\* what the collection holds for a query: a chunk near the query, one far
\* from it (distance above the threshold)
StoredChunks == {[regulation_id |-> "R1", content |-> "c1", distance |-> 0],
                 [regulation_id |-> "R2", content |-> "c2", distance |-> 2]}

RECURSIVE SeqsUpTo(_, _)
SeqsUpTo(S, n) ==
    IF n = 0 THEN {<<>>}
    ELSE LET shorter == SeqsUpTo(S, n - 1)
         IN  shorter \cup {Append(q, x) : q \in {r \in shorter : Len(r) = n - 1}, x \in S}

\* the store is down (the query raises), or it answers with its documents
Raises == [up |-> FALSE, chunks |-> <<>>]
StoreAnswers ==
    {Raises} \cup {[up |-> TRUE, chunks |-> cs] : cs \in SeqsUpTo(StoredChunks, MaxChunks)}

\* " ".join(parts), "\n\n".join(parts)
RECURSIVE Join(_, _)
Join(parts, sep) ==
    IF parts = <<>> THEN <<>>
    ELSE IF Len(parts) = 1 THEN parts[1]
    ELSE parts[1] \o sep \o Join(Tail(parts), sep)

FallbackQuery == <<"cheol", "do", SP, "gyeol", "ham", SP, "jeom", "geom">>

RECURSIVE QueryParts(_)
QueryParts(dets) ==
    IF dets = <<>> THEN <<>>
    ELSE LET det == Head(dets)
         IN  (IF det.cls_name # "" /\ det.detail # ""
              THEN << <<det.cls_name, SP, det.detail>> >> ELSE <<>>)
                 \o (IF det.rail_type # "" THEN << <<det.rail_type>> >> ELSE <<>>)
                 \o QueryParts(Tail(dets))

\* _build_rag_query
build_rag_query(dets) ==
    IF QueryParts(dets) # <<>> THEN Join(QueryParts(dets), <<SP>>) ELSE FallbackQuery

\* a search that drops the chunks beyond the threshold
SearchWithinThreshold(answer) ==
    SelectSeq(answer, LAMBDA c : c.distance <= rag_threshold)

\* VectorService.search: every document the collection returns becomes a chunk
VectorSearch(answer) == answer

\* _format_rag_context
format_rag_context(cs) ==
    Join([i \in 1..Len(cs) |->
            <<"[", "gyu", "jeong", SP, cs[i].regulation_id, "]", NL, cs[i].content>>],
         <<NL, NL>>)

NewCall(dets, ur, st, llm) ==
    [pc |-> "start", detections |-> dets, use_rag |-> ur, store |-> st, llm |-> llm,
     searched |-> FALSE, query |-> <<>>, rag_context |-> <<>>, referenced |-> {},
     prompt |-> [made |-> FALSE], result |-> [status |-> None]]

GenInit ==
    /\ \E dets \in SeqsUpTo(Detections, MaxDetections), ur \in BOOLEAN,
          st \in StoreAnswers, llm \in {"ok", "fail"} :
          gen = NewCall(dets, ur, st, llm)
    /\ atext = <<>> /\ aout = <<>> /\ apc = Idle
    /\ ChunkIdle /\ FixIdle /\ ParseIdle /\ BatchIdle /\ IngIdle /\ ExtIdle

\* lines 35-48: the search, when RAG is asked for and there are detections.
\* An exception of vector_service.search leaves generate (no try).
Retrieve ==
    /\ gen.pc = "start"
    /\ IF gen.use_rag /\ gen.detections # <<>>
       THEN IF ~gen.store.up
            THEN gen' = [gen EXCEPT !.pc = "done", !.searched = TRUE,
                                    !.query = build_rag_query(gen.detections),
                                    !.result = [status |-> "raised", error |-> "store"]]
            ELSE LET cs == VectorSearch(gen.store.chunks)
                 IN  gen' = [gen EXCEPT
                        !.pc = "retrieved", !.searched = TRUE,
                        !.query = build_rag_query(gen.detections),
                        !.rag_context = IF cs # <<>> THEN format_rag_context(cs) ELSE <<>>,
                        !.referenced = {cs[i].regulation_id : i \in 1..Len(cs)}]
       ELSE gen' = [gen EXCEPT !.pc = "retrieved"]
    /\ UNCHANGED <<chunkVars, fixVars, parseVars, batchVars, fmtVars, ingVars, extVars>>

\* lines 50-64: the prompt, the model call, the returned triple
Complete ==
    /\ gen.pc = "retrieved"
    /\ LET prompt == [made |-> TRUE, detections |-> gen.detections,
                      rag_context |-> gen.rag_context]
       IN  IF gen.llm = "fail"
           THEN gen' = [gen EXCEPT !.pc = "done", !.prompt = prompt,
                                   !.result = [status |-> "raised", error |-> "llm"]]
           ELSE gen' = [gen EXCEPT !.pc = "done", !.prompt = prompt,
                                   !.result = [status |-> "returned",
                                               document |-> "generated",
                                               referenced |-> gen.referenced,
                                               rag_used |-> gen.rag_context # <<>>]]
    /\ UNCHANGED <<chunkVars, fixVars, parseVars, batchVars, fmtVars, ingVars, extVars>>

GenNext == Retrieve \/ Complete
SpecGen == GenInit /\ [][GenNext]_vars

\* number of positions of s that hold x
Count(s, x) == Cardinality({i \in 1..Len(s) : s[i] = x})

Both(det) == det.cls_name # "" /\ det.detail # ""
\* number of parts the claim names: one per detection with both fields, one
\* per distinct non-empty rail_type
ClaimedParts(dets) ==
    Cardinality({i \in 1..Len(dets) : Both(dets[i])})
        + Cardinality({dets[i].rail_type : i \in 1..Len(dets)} \ {""})

\* C13 (as claimed): the query holds "cls_name detail" once for each
\* detection that has both, and each distinct non-empty rail_type exactly
\* once, joined by single spaces; with no part it is the fallback query.
C13_QueryParts ==
    gen.searched =>
        LET dets == gen.detections
            pairs == Cardinality({i \in 1..Len(dets) : Both(dets[i])})
        IN  IF ClaimedParts(dets) = 0 THEN gen.query = FallbackQuery
            ELSE /\ \A t \in RailTypes \ {""} :
                        Count(gen.query, t)
                            = IF \E i \in 1..Len(dets) : dets[i].rail_type = t
                              THEN 1 ELSE 0
                 /\ Count(gen.query, "crack") = pairs
                 /\ Count(gen.query, "rail") = pairs
                 /\ Count(gen.query, SP) = 2 * pairs + (ClaimedParts(dets) - pairs) - 1

C15_ProceedsWithoutContext ==
    (gen.pc = "done" /\ gen.searched /\ gen.store = Raises /\ gen.llm = "ok") =>
        /\ gen.prompt.made
        /\ gen.prompt.rag_context = <<>>
        /\ gen.result.status = "returned"
        /\ ~gen.result.rag_used

(***************************************************************************)
(* PDFGenerator._format_action_text (app/services/pdf_generator.py)        *)
(***************************************************************************)
Br       == <<"<", "b", "r", "/", ">">>
Hashes   == <<"#", "#", "#">>
ListNum  == Hashes \o <<"L", "I", "S", "T", "N", "U", "M">>
DashMark == Hashes \o <<"D", "A", "S", "H">> \o Hashes

\* step 1 without the \r replacements
UnifyBreaksKeepCR(s) ==
    Replace(Replace(Replace(s, <<"LS">>, <<NL>>), <<"PS">>, <<NL>>), <<"NEL">>, <<NL>>)

\* step 1: every kind of line break becomes \n
UnifyBreaks(s) ==
    Replace(Replace(Replace(Replace(Replace(s, <<CR, NL>>, <<NL>>), <<CR>>, <<NL>>),
                            <<"LS">>, <<NL>>), <<"PS">>, <<NL>>), <<"NEL">>, <<NL>>)

\* step 2: --x-- becomes x, remaining runs of dashes are removed
StripDashes(s) ==
    Sub(<<Lit(<<"-">>), Plus({"-"})>>, <<>>,
        Sub(<<Lit(<<"-", "-">>), NRep({"-"}, 1, Inf), Lit(<<"-", "-">>)>>, <<G(2, 2)>>, s))

\* step 4: list markers are replaced by placeholders
ProtectMarkers(s) ==
    LET a == Sub(<<Bos, Plus(Digit), Lit(<<".">>), Plus(Space)>>,
                 <<T(ListNum), G(2, 3), T(Hashes \o <<SP>>)>>, s)
        b == Sub(<<Lit(<<NL>>), Plus(Digit), Lit(<<".">>), Plus(Space)>>,
                 <<T(<<NL>> \o ListNum), G(2, 3), T(Hashes \o <<SP>>)>>, a)
        c == Sub(<<Lit(<<SP>>), Plus(Digit), Lit(<<".">>), Plus(Space)>>,
                 <<T(<<SP>> \o ListNum), G(2, 3), T(Hashes \o <<SP>>)>>, b)
        d == Sub(<<Bos, Lit(<<"-">>), Plus(Space)>>, <<T(DashMark \o <<SP>>)>>, c)
    IN  Sub(<<Lit(<<NL, "-">>), Plus(Space)>>, <<T(<<NL>> \o DashMark \o <<SP>>)>>, d)

\* step 6: placeholders become <br/> and the marker
RestoreMarkers(s) ==
    Replace(Sub(<<Lit(ListNum), Plus(Digit), Lit(<<".">>), Lit(Hashes)>>,
                <<T(Br), G(2, 3)>>, s),
            DashMark, Br \o <<"-">>)

\* step 8: (<br/>)+ becomes one <br/>
RECURSIVE CollapseBr(_)
CollapseBr(s) ==
    IF s = <<>> THEN <<>>
    ELSE IF HasAt(s, 1, Br \o Br) THEN CollapseBr(SubSeq(s, Len(Br) + 1, Len(s)))
    ELSE <<Head(s)>> \o CollapseBr(Tail(s))

\* _format_action_text(text)
format_action_text(s) ==
    IF s = <<>> THEN s
    ELSE
    LET t3 == Replace(StripDashes(UnifyBreaks(s)), <<"*">>, <<"-">>)
        t5 == Sub(Gap, <<T(<<SP>>)>>, ProtectMarkers(t3))
        t7 == Step13(RestoreMarkers(t5))
        t8 == CollapseBr(t7)
        t9 == Sub(<<Bos, Lit(Br)>>, <<>>, t8)
    IN  Strip(t9)

(* Input texts: concatenations of at most MaxFmtPieces pieces. *)
MaxFmtPieces == 3
FmtPieces == {<<NL>>, <<CR>>, <<SP>>, <<"1", ".", SP>>, <<"-", SP>>, <<"a">>,
              <<"*">>, <<"-", "-">>, Br}
FmtTexts == {Concat(q) : q \in SeqsUpTo(FmtPieces, MaxFmtPieces)}

FmtInit ==
    /\ atext \in FmtTexts
    /\ aout = <<>> /\ apc = "start"
    /\ gen = [pc |-> Idle]
    /\ ChunkIdle /\ FixIdle /\ ParseIdle /\ BatchIdle /\ IngIdle /\ ExtIdle

DoFormat ==
    /\ apc = "start"
    /\ aout' = format_action_text(atext)
    /\ apc' = "done"
    /\ UNCHANGED <<atext, chunkVars, fixVars, parseVars, batchVars, genVars, ingVars,
                   extVars>>

FmtNext == DoFormat
SpecFmt == FmtInit /\ [][FmtNext]_vars

\* C16: the output of _format_action_text holds no \n and no \r.
C16_NoRawLineBreak ==
    apc = "done" => \A i \in 1..Len(aout) : aout[i] \notin {NL, CR}

\* C16 witness: a text with both kinds of line break was formatted and the
\* list boundary shows as the break token
C16_Witness ==
    /\ apc = "done"
    /\ Count(atext, NL) >= 1 /\ Count(atext, CR) >= 1
    /\ Contains(aout, Br)

\* C17 (as claimed): the output never begins with <br/> and never holds two
\* <br/> in a row, also for a text that starts with a line break or white
\* space followed by a list item.
C17_NoLeadingOrDoubleBreak ==
    apc = "done" => ~HasAt(aout, 1, Br) /\ ~Contains(aout, Br \o Br)

(***************************************************************************)
(* Further claims about the batch runs (SpecBatch).                        *)
(***************************************************************************)
\* C18: a run whose discovery gave no item ends with an error, has made no
\* generation or review call and has produced no artifact.
C18_NoItemsAborts ==
    \A r \in DOMAIN runs :
        (runs[r].pc = "done" /\ runs[r].vision_results = <<>>) =>
            /\ runs[r].response \in {"400", "500"}
            /\ runs[r].calls = <<>> /\ runs[r].results = <<>>
            /\ runs[r].json_paths = {} /\ runs[r].reported = {}

\* C18 witness: an upload of an archive without structured results was
\* extracted, read, and answered with 400
C18_Witness ==
    \E r \in DOMAIN runs :
        /\ runs[r].kind = "zip" /\ runs[r].archive = {}
        /\ runs[r].extract_dir # 0
        /\ runs[r].pc = "done" /\ runs[r].response = "400"

\* C19 (as claimed): what a completed run returns speaks of each of the N
\* discovered items, failed ones included.
C19_EveryItemReported ==
    \A r \in DOMAIN runs :
        (runs[r].pc = "done" /\ runs[r].response = "200") =>
            \A j \in 1..Len(runs[r].vision_results) :
                <<runs[r].vision_results[j].folder, runs[r].vision_results[j].name>>
                    \in runs[r].reported

\* C20 (as claimed): generation is invoked for each item and accepted: an
\* item for which the language model (and the store) succeed is recorded as
\* a success whose document is the generated, or reviewed, text.
C20_GenerationAccepted ==
    \A r \in DOMAIN runs :
        \A j \in 1..Len(runs[r].results) :
            runs[r].vision_results[j].llm = "ok" =>
                /\ runs[r].calls[j] # <<>> /\ runs[r].calls[j][1] = "generate"
                /\ ~Failed(runs[r].results[j])
                /\ runs[r].results[j].document[2]
                       = IF runs[r].skip_review THEN "generated" ELSE "reviewed"

(***************************************************************************)
(* VectorService.add_regulation_document (app/services/vector_service.py)  *)
(* and RegulationChunker.extract_metadata (app/utils/chunker.py).          *)
(* The collection is a function from record id to document and metadata.   *)
(***************************************************************************)
\* r'\[([^\]]+)\]:\s*(.+?)(?=\n\[|\n\n|$)' with re.DOTALL
metadata_pattern ==
    <<Lit(<<"[">>), NRep({"]"}, 1, Inf), Lit(<<"]", ":">>), Star(Space),
      LazyN({}, 1, Inf),
      LookAhead(<< <<Lit(<<NL, "[">>)>>, <<Lit(<<NL, NL>>)>>, <<Eos>> >>)>>

\* field_name.replace(" ", "_")
FieldKey(name) == Replace(name, <<SP>>, <<"_">>)
RegulationIdKey == <<"gyu", "jeong", "_", "I", "D">>

\* extract_metadata(chunk_content): every match assigns metadata[key], a
\* later match of the same key replacing the earlier one
extract_metadata(c) ==
    LET ms == Scan(metadata_pattern, c, 1)
        key(j) == FieldKey(Group(c, ms[j], 2, 2))
        keys == {key(j) : j \in 1..Len(ms)} \ {RegulationIdKey}
    IN  [k \in keys |->
            LET last == CHOOSE j \in 1..Len(ms) :
                            key(j) = k /\ \A i \in (j + 1)..Len(ms) : key(i) # k
            IN  Strip(Group(c, ms[last], 5, 5))]

\* str(chunk_index) for the indexes of the model
IndexText(n) == <<<<"0">>, <<"1">>, <<"2">>, <<"3">>, <<"4">>, <<"5">>, <<"6">>,
                  <<"7">>, <<"8">>, <<"9">>>>[n + 1]
\* f"{chunk['regulation_id']}_chunk_{chunk['chunk_index']}"
ChunkId(ch) ==
    ch.regulation_id \o <<"_", "c", "h", "u", "n", "k", "_">> \o IndexText(ch.chunk_index)

\* lines 57-70: the id, document and metadata of every chunk
Records(cs) ==
    [j \in 1..Len(cs) |->
        [id |-> ChunkId(cs[j]), document |-> cs[j].content,
         metadata |-> extract_metadata(cs[j].content)]]

Ids(recs) == {recs[j].id : j \in 1..Len(recs)}

\* collection.add(ids, documents, metadatas) of the store library: ids
\* repeated within one call are refused (the call raises); a record whose id
\* the collection already holds is, depending on the library version, a
\* reason to raise or is skipped, the held record staying as it is.  In no
\* version does add replace a held record.
AddOutcomes(held, recs) ==
    LET fresh == {j \in 1..Len(recs) : recs[j].id \notin DOMAIN held}
        put(js) == [i \in DOMAIN held \cup {recs[j].id : j \in js} |->
                      IF i \in DOMAIN held THEN held[i]
                      ELSE LET j == CHOOSE j \in js : recs[j].id = i
                           IN  [document |-> recs[j].document,
                                metadata |-> recs[j].metadata]]
    IN  IF Cardinality(Ids(recs)) < Len(recs)
        THEN {[raised |-> TRUE, held |-> held]}
        ELSE IF fresh = 1..Len(recs)
        THEN {[raised |-> FALSE, held |-> put(fresh)]}
        ELSE {[raised |-> TRUE, held |-> held], [raised |-> FALSE, held |-> put(fresh)]}

(* Ingestions: the same source is loaded MaxLoads times, each time with one *)
(* of the texts below (load_regulation_pdfs, main.py 110-122).              *)
MaxLoads == 2
MaxIngPieces == 2
FieldK1 == <<NL, "[", "k", "]", ":", SP, "1">>
FieldK2 == <<NL, "[", "k", "]", ":", SP, "2">>
\* a piece is a unit: its marker line and at most one field line
IngPieces == {MarkerLit \o IdA1 \o FieldK1, MarkerLit \o IdA1 \o FieldK2,
              MarkerLit \o IdA2 \o FieldK2, MarkerLit \o IdA2}

RECURSIVE IngSeqs(_)
IngSeqs(n) ==
    IF n = 0 THEN {<<>>}
    ELSE LET shorter == IngSeqs(n - 1)
         IN  shorter \cup {Append(q, p) : q \in {r \in shorter : Len(r) = n - 1},
                                          p \in IngPieces}
IngTexts == {Concat(q) : q \in IngSeqs(MaxIngPieces)}

IngInit ==
    /\ store = <<>>
    /\ ingest = [pc |-> "ready", n |-> 0, latest |-> <<>>, regs |-> <<>>,
                 added |-> 0, raised |-> FALSE]
    /\ ext = [pc |-> Idle]
    /\ ChunkIdle /\ FixIdle /\ ParseIdle /\ BatchIdle /\ GenIdle /\ FmtIdle

\* add_regulation_document(document_text, source): chunk, return 0 when
\* there is no chunk, else build the records and add them
AddRegulationDocument ==
    /\ ingest.pc = "ready" /\ ingest.n < MaxLoads
    /\ \E document_text \in IngTexts :
          LET regs == Regulations(document_text)
              cs == ApplyOverlap(regs, chunk_overlap)
              recs == Records(cs)
          IN  IF cs = <<>>
              THEN /\ store' = store
                   /\ ingest' = [ingest EXCEPT !.n = @ + 1, !.latest = recs,
                                               !.regs = regs,
                                               !.added = 0, !.raised = FALSE]
              ELSE \E out \in AddOutcomes(store, recs) :
                      /\ store' = out.held
                      /\ ingest' = [ingest EXCEPT !.n = @ + 1, !.latest = recs,
                                       !.regs = regs,
                                       !.added = IF out.raised THEN 0 ELSE Len(cs),
                                       !.raised = out.raised]
    /\ UNCHANGED <<chunkVars, fixVars, parseVars, batchVars, genVars, fmtVars, extVars>>

IngNext == AddRegulationDocument
SpecIngest == IngInit /\ [][IngNext]_vars

\* C21 (as claimed): after the source was ingested a second time, the store
\* holds exactly the units of the latest ingestion (their ids, documents and
\* metadata), the units of the earlier one being replaced.
C21_LatestReplaces ==
    ingest.n = 2 =>
        /\ DOMAIN store = Ids(ingest.latest)
        /\ \A j \in 1..Len(ingest.latest) :
              /\ store[ingest.latest[j].id].document = ingest.latest[j].document
              /\ store[ingest.latest[j].id].metadata = ingest.latest[j].metadata

\* C28 (as claimed): the metadata stored with a unit has, for every key the
\* unit's own body defines, the value of the unit's own body; fields that
\* are in the chunk only through the overlap do not override it.
C28_OwnFieldsKept ==
    (ingest.n = 1 /\ ~ingest.raised) =>
        \A j \in 1..Len(ingest.latest) :
            LET own == extract_metadata(ingest.regs[j].content)
                held == store[ingest.latest[j].id].metadata
            IN  \A k \in DOMAIN own : k \in DOMAIN held /\ held[k] = own[k]

AfterPrimary == PrimaryPass(PrePass(content))

\* C23: every key to which the primary pass gave a non-empty value has the
\* same value after the secondary pass: the secondary pass changes only keys
\* that were absent or empty.
C23_SecondaryKeepsPrimary ==
    ppc = "done" =>
        LET s == PrePass(content)
            primary == PrimaryPass(s)
            secondary == SecondaryPass(primary, s)
        IN  \A k \in DOMAIN primary :
                primary[k] # <<>> =>
                    /\ k \in DOMAIN secondary
                    /\ secondary[k] = primary[k]

\* C23 witness: a parsed report in which a key got a non-empty value from a
\* block section and an inline section of the same key carries another text
C23_Witness ==
    /\ ppc = "done"
    /\ \E i, j \in 1..Len(sections) :
          /\ ~sections[j].inline /\ sections[i].inline
          /\ Key(sections[i].label) = Key(sections[j].label)
          /\ Key(sections[j].label) \in DOMAIN AfterPrimary
          /\ AfterPrimary[Key(sections[j].label)] = <<"f", "o", "o">>
          /\ Strip(UpTo(sections[i].body)) = <<"x">>
          /\ parsed[Key(sections[j].label)] = <<"f", "o", "o">>

\* C27 (as claimed), under SpecParse: when the risk section has no explicit
\* grade sub-label, the parsed risk grade is one of E, O, X1, X2, S or there
\* is no parsed risk grade; it is never another text.
C27_FallbackGradeIsCode ==
    ppc = "done" =>
        \A i \in 1..Len(sections) :
            (IsRisk(i) /\ ~Contains(sections[i].body, GradeLabel)) =>
                \/ GradeKey \notin DOMAIN parsed
                \/ \E k \in 1..Len(GradeCodes) : parsed[GradeKey] = GradeCodes[k]

\* C24 (as claimed), under SpecParse: when the environment section has its
\* sub-labels concatenated on one line, the value parsed for each sub-label is
\* the text between that sub-label and the sub-label that comes next (or the
\* end of the line), for every order and every value; for an empty value the
\* sub-label is parsed to the empty text or not at all.
C24_EnvValuesDelimited ==
    ppc = "done" =>
        \A l \in EnvLines :
            sections = EnvReport(l) =>
                \A i \in 1..Len(l) :
                    IF l[i].v = <<>>
                    THEN l[i].f \notin DOMAIN parsed \/ parsed[l[i].f] = <<>>
                    ELSE l[i].f \in DOMAIN parsed /\ parsed[l[i].f] = l[i].v

\* the sections of the report that carry spelling order[j] with a non-empty body
Carriers(order, j) ==
    {i \in 1..Len(sections) :
        Key(sections[i].label) = order[j] /\ Strip(sections[i].body) # <<>>}
FilledSpellings(order) == {j \in DOMAIN order : Carriers(order, j) # {}}
FirstSpelling(order) ==
    CHOOSE j \in FilledSpellings(order) : \A k \in FilledSpellings(order) : j <= k

ResolvedFromFirst(order, target) ==
    FilledSpellings(order) # {} =>
        /\ target \in DOMAIN parsed
        /\ \E i \in Carriers(order, FirstSpelling(order)) :
               parsed[target] = Strip(sections[i].body)

\* C25, under SpecParse: the judgment rationale and the reference regulation
\* are each resolved from an ordered list of label spellings; the parsed value
\* is the non-empty value of the first spelling in that order that the report
\* carries with a non-empty body, and a later spelling never overrides it.
C25_FirstCandidateWins ==
    (ppc = "done" /\ sections \in CandReports) =>
        /\ ResolvedFromFirst(RationaleOrder, Rationale)
        /\ ResolvedFromFirst(ReferenceOrder, Reference)

\* C25 witness: a parsed report carries two non-empty spellings of the
\* reference regulation, neither the canonical one, the one of lower
\* priority first; the parsed reference regulation is the value of the other
C25_Witness ==
    /\ ppc = "done"
    /\ Len(sections) = 2
    /\ sections[1].label = ReferenceNames[Len(ReferenceNames)]
    /\ sections[2].label = ReferenceNames[1]
    /\ sections[2].body = <<"x">>
    /\ Reference \in DOMAIN parsed
    /\ parsed[Reference] = <<"x">>

\* the line breaks of s that are immediately followed by a list marker,
\* "N. " (N a run of digits) or "- "
MarkerAt(s, i) ==
    \/ HasAt(s, i, <<"-", SP>>)
    \/ \E n \in 1..Len(s) :
          /\ \A k \in i..(i + n - 1) : k <= Len(s) /\ s[k] \in Digit
          /\ HasAt(s, i + n, <<".", SP>>)
ItemBreaks(s) == {i \in 1..Len(s) : s[i] = NL /\ MarkerAt(s, i + 1)}

\* C26 (as claimed), under SpecFix: _fix_line_breaks turns into a space only
\* line breaks that do not start a list item; a line break immediately
\* followed by "N. " or "- " is still a line break in the result, whatever
\* precedes it, so the result has a list-item break for each one of the text.
C26_ItemBreaksKept ==
    fpc # "start" => Cardinality(ItemBreaks(fonce)) >= Cardinality(ItemBreaks(ftext))

(***************************************************************************)
(* parse_document_sections (app/routers/pipeline.py, lines 35-54), the     *)
(* section parser behind the batch JSON report, next to the parser of the  *)
(* PDF renderer.                                                           *)
(***************************************************************************)
\* content.split('\n')
RECURSIVE SplitLines(_)
SplitLines(s) ==
    IF ~Contains(s, <<NL>>) THEN <<s>>
    ELSE <<FirstLine(s)>> \o SplitLines(SubSeq(s, Len(FirstLine(s)) + 2, Len(s)))

\* re.match(r'^\[(.+?)\]$', line.strip())
HeaderMatch(line) ==
    Search(<<Bos, Lit(<<"[">>), Dot, Lit(<<"]">>), Eos>>, Strip(line))
HeaderKey(line) == Group(Strip(line), HeaderMatch(line), 3, 3)

\* sections[current_key] = '\n'.join(current_lines).strip()
Flush(st) ==
    IF st.current_key = <<>> THEN st.sections
    ELSE Put(st.sections, st.current_key[1], Strip(Join(st.current_lines, <<NL>>)))

\* the loop over the lines; current_key is <<>> for None, <<key>> otherwise
RECURSIVE SectionLoop(_, _, _)
SectionLoop(lines, j, st) ==
    IF j > Len(lines) THEN st
    ELSE SectionLoop(lines, j + 1,
            IF HeaderMatch(lines[j]) # NoMatch
            THEN [sections |-> Flush(st), current_key |-> <<HeaderKey(lines[j])>>,
                  current_lines |-> <<>>]
            ELSE IF st.current_key # <<>>
            THEN [st EXCEPT !.current_lines = Append(@, lines[j])]
            ELSE st)

parse_document_sections(c) ==
    Flush(SectionLoop(SplitLines(c), 1,
                      [sections |-> <<>>, current_key |-> <<>>, current_lines |-> <<>>]))

\* well-formed reports: block sections only, each label once and without a space
WellFormed(r) ==
    /\ AllBlocks(r) /\ DistinctKeys(r)
    /\ \A i \in 1..Len(r) : ~Contains(r[i].label, <<SP>>)
AgreeReports == {r \in Reports(MaxSections) : WellFormed(r)}

AgreeInit ==
    /\ sections \in AgreeReports
    /\ content = Render(sections)
    /\ parsed = <<>> /\ ppc = "start"
    /\ jsec = [pc |-> "start", sections |-> <<>>]
    /\ ChunkIdle /\ FixIdle /\ BatchIdle /\ GenIdle /\ FmtIdle /\ IngIdle /\ ExtIdle

\* the batch handler parses the document for the JSON report
DoSections ==
    /\ jsec.pc = "start"
    /\ jsec' = [pc |-> "done", sections |-> parse_document_sections(content)]
    /\ UNCHANGED <<sections, content, parsed, ppc, chunkVars, fixVars, batchVars, genVars,
                   fmtVars, ingVars, extVars>>

\* the renderer parses the same document (DoParse)
AgreeNext == DoSections \/ DoParse
SpecAgree == AgreeInit /\ [][AgreeNext]_vars

\* C29 (as claimed), under SpecAgree: for a well-formed report whose labels
\* have no space, parse_document_sections and _parse_document_content hold the
\* same trimmed body for every section label, also for an empty body.
C29_ParsersAgree ==
    (ppc = "done" /\ jsec.pc = "done") =>
        \A i \in 1..Len(sections) :
            LET l == sections[i].label
            IN  /\ l \in DOMAIN jsec.sections
                /\ l \in DOMAIN parsed
                /\ jsec.sections[l] = parsed[l]

(***************************************************************************)
(* ZipProcessor.extract_zip (app/services/zip_processor.py, lines 21-60),  *)
(* entry by entry.  An entry name is a sequence of characters; a path is a *)
(* sequence of segments, the empty sequence being the root.  "H1" "H2" are *)
(* two cp437 characters whose bytes form one EUC-KR syllable ("han"),      *)
(* "U1" "U2" two whose bytes are no EUC-KR text but one UTF-8 letter       *)
(* ("Agrave"); "han" itself has no cp437 encoding.                             *)
(***************************************************************************)
HighBytes == {"H1", "H2", "U1", "U2"}
NotCp437  == {"han", "Agrave"}

\* bytes.decode('euc-kr'): a lead byte takes the next byte as its trail byte
RECURSIVE EucKr(_)
EucKr(n) ==
    IF n = <<>> THEN [ok |-> TRUE, s |-> <<>>]
    ELSE IF Head(n) \notin HighBytes
    THEN LET r == EucKr(Tail(n)) IN [ok |-> r.ok, s |-> <<Head(n)>> \o r.s]
    ELSE IF HasAt(n, 1, <<"H1", "H2">>)
    THEN LET r == EucKr(SubSeq(n, 3, Len(n))) IN [ok |-> r.ok, s |-> <<"han">> \o r.s]
    ELSE [ok |-> FALSE, s |-> <<>>]

\* bytes.decode('utf-8')
RECURSIVE Utf8(_)
Utf8(n) ==
    IF n = <<>> THEN [ok |-> TRUE, s |-> <<>>]
    ELSE IF Head(n) \notin HighBytes
    THEN LET r == Utf8(Tail(n)) IN [ok |-> r.ok, s |-> <<Head(n)>> \o r.s]
    ELSE IF HasAt(n, 1, <<"U1", "U2">>)
    THEN LET r == Utf8(SubSeq(n, 3, Len(n))) IN [ok |-> r.ok, s |-> <<"Agrave">> \o r.s]
    ELSE [ok |-> FALSE, s |-> <<>>]

\* lines 39-46: cp437 bytes read as EUC-KR, else as UTF-8, else the name as it is
decoded_name(filename) ==
    IF \E i \in 1..Len(filename) : filename[i] \in NotCp437 THEN filename
    ELSE IF EucKr(filename).ok THEN EucKr(filename).s
    ELSE IF Utf8(filename).ok THEN Utf8(filename).s
    ELSE filename

\* the segments of a name: split at "/", empty and "." segments dropped
RECURSIVE Segments(_, _)
Segments(n, cur) ==
    LET done == IF cur = <<>> \/ cur = <<".">> THEN <<>> ELSE <<cur>>
    IN  IF n = <<>> THEN done
        ELSE IF Head(n) = "/" THEN done \o Segments(Tail(n), <<>>)
        ELSE Segments(Tail(n), Append(cur, Head(n)))

\* extract_dir / name: an absolute name replaces extract_dir
PathJoin(dir, n) ==
    IF n # <<>> /\ Head(n) = "/" THEN Segments(n, <<>>) ELSE dir \o Segments(n, <<>>)

\* the place a path names once the system has followed its ".." segments
RECURSIVE Resolve(_, _)
Resolve(path, at) ==
    IF path = <<>> THEN at
    ELSE IF Head(path) = <<".", ".">>
    THEN Resolve(Tail(path), IF at = <<>> THEN at ELSE SubSeq(at, 1, Len(at) - 1))
    ELSE Resolve(Tail(path), Append(at, Head(path)))

\* the places named by path and by the paths above it
Ancestors(path) == {Resolve(SubSeq(path, 1, k), <<>>) : k \in 0..Len(path)}

IsUnder(path, dir) ==
    Len(path) > Len(dir) /\ SubSeq(path, 1, Len(dir)) = dir

TempDir     == << <<"t">> >>
temp_base   == TempDir \o << <<"d">> >>
ExtractDir  == temp_base \o << <<"r", "e", "s">> >>

MaxEntries == 2
EntryNames ==
    {<<"r", "/", "a">>, <<"r", "/">>, <<"r">>, <<".", ".", "/", "a">>, <<"/", "a">>,
     <<"r", "/", ".", ".", "/", "a">>, <<"H1", "H2", "/", "a">>, <<"U1", "U2">>,
     <<"han", "/", "H1">>}
RECURSIVE EntryLists(_)
EntryLists(n) ==
    IF n = 0 THEN {<<>>}
    ELSE LET shorter == EntryLists(n - 1)
         IN  shorter \cup {Append(q, e) : q \in {r \in shorter : Len(r) = n - 1},
                                          e \in EntryNames}

ExtInit ==
    /\ ext = [pc |-> "ready", infolist |-> <<>>, i |-> 0, files |-> {}, dirs |-> {},
              folders |-> {}]
    /\ store = <<>> /\ ingest = [pc |-> Idle]
    /\ ChunkIdle /\ FixIdle /\ ParseIdle /\ BatchIdle /\ GenIdle /\ FmtIdle

\* lines 31-36: the extraction directory is made and the archive is opened
OpenArchive ==
    /\ ext.pc = "ready"
    /\ \E a \in EntryLists(MaxEntries) :
          ext' = [ext EXCEPT !.pc = "entries", !.infolist = a, !.i = 1,
                             !.dirs = Ancestors(ExtractDir)]
    /\ UNCHANGED <<chunkVars, fixVars, parseVars, batchVars, genVars, fmtVars, ingVars>>

\* the outcomes of writing a file at place t: a write below the temporary
\* directory succeeds, another one succeeds or is refused by the system
WriteOutcomes(t) == IF IsUnder(t, TempDir) THEN {TRUE} ELSE BOOLEAN

\* lines 37-55, one entry of infolist
ExtractEntry ==
    /\ ext.pc = "entries" /\ ext.i <= Len(ext.infolist)
    /\ LET filename    == ext.infolist[ext.i]
           target_path == PathJoin(ExtractDir, decoded_name(filename))
           target      == Resolve(target_path, <<>>)
           is_dir      == filename[Len(filename)] = "/"
           above       == IF is_dir THEN Ancestors(target_path)
                          ELSE Ancestors(SubSeq(target_path, 1, Len(target_path) - 1))
       IN  IF target_path = <<>> \/ above \cap ext.files # {}
                \/ (~is_dir /\ target \in ext.dirs \cup above)
           THEN ext' = [ext EXCEPT !.pc = "raised"]
           ELSE IF is_dir
           THEN ext' = [ext EXCEPT !.i = @ + 1, !.dirs = @ \cup above]
           ELSE \E ok \in WriteOutcomes(target) :
                   ext' = IF ok
                          THEN [ext EXCEPT !.i = @ + 1, !.dirs = @ \cup above,
                                           !.files = @ \cup {target}]
                          ELSE [ext EXCEPT !.pc = "raised", !.dirs = @ \cup above]
    /\ UNCHANGED <<chunkVars, fixVars, parseVars, batchVars, genVars, fmtVars, ingVars>>

\* lines 57-60: the directories directly below the extraction directory
ReturnFolders ==
    /\ ext.pc = "entries" /\ ext.i > Len(ext.infolist)
    /\ ext' = [ext EXCEPT !.pc = "done",
                          !.folders = {d[Len(d)] : d \in {x \in ext.dirs :
                                          Len(x) = Len(ExtractDir) + 1
                                          /\ IsUnder(x, ExtractDir)}}]
    /\ UNCHANGED <<chunkVars, fixVars, parseVars, batchVars, genVars, fmtVars, ingVars>>

ExtNext == OpenArchive \/ ExtractEntry \/ ReturnFolders
SpecExtract == ExtInit /\ [][ExtNext]_vars

\* C30 (as claimed), under SpecExtract: every file written by extract_zip lies
\* inside the extraction directory of the run, whatever the entry names are
\* (".." segments, absolute paths).
C30_WritesInside ==
    \A f \in ext.files : IsUnder(f, ExtractDir)

====
